---- MODULE Spec2Model ----
(***************************************************************************)
(* Receipt-book pipeline of suspense.durgadawaghar.com: the receipt parser *)
(* (package parser), the identifier extractor (package extractor) and the  *)
(* party matcher (package matcher).                                        *)
(*                                                                         *)
(* Strings are TLA+ strings; a character is a string of length one.  The   *)
(* regular expressions of the source are written as syntax trees and       *)
(* matched by a backtracking matcher with Go's leftmost-first semantics.   *)
(***************************************************************************)
EXTENDS Integers, Sequences, FiniteSets, TLC

VARIABLES
    \* ---- values of the package's pure functions, computed once at start ----
    tables,
    \* ---- parser.Parse (one call) ----
    lines,           \* strings.Split(text, "\n"): the input text, line by line
    year,            \* the reference year argument
    i,               \* loop index into lines (1-based)
    transactions,    \* the result slice
    currentTx,       \* *Transaction, Nil when nil
    narrationLines,  \* []string buffer of the current transaction
    lastDate,        \* date of the last date-started line
    pc,              \* "loop" while scanning, "done" after return
    \* ---- history of the call, for stating the claims ----
    opened,          \* line indexes at which a transaction became current
    emittedFrom,     \* for each emitted transaction, the line index that opened it
    curFrom,         \* line index that opened currentTx (0 when nil)
    \* ---- one flush taken alone: the narration built and its mode ----
    txNarration,     \* buildNarration(narrationLines)
    txPaymentMode,   \* detectPaymentMode(txNarration), "" before the call
    \* ---- extractor.Extract (successive calls on one narration) ----
    exNarration,     \* the narration argument
    exUpper,         \* upperNarration
    identifiers,     \* the result slice of the call in progress
    seen,            \* the keys "type:value" already added
    exPc,            \* the block of Extract that runs next
    results,         \* what the calls made so far returned
    \* ---- matcher.calculateConfidence (one call) ----
    matchedOn,       \* the matches argument: []MatchedIdentifier
    calcReturn,      \* <<the confidence returned>>, empty before the return
    \* ---- matcher.Match (one call) ----
    mPc,             \* the part of Match that runs next
    txCount,         \* the store: number of transactions of each party id
    matches,         \* rows of FindPartiesByIdentifierValues
    patterns,        \* matchByNarration: the search patterns still to query
    partyMatches,    \* map[string]*MatchResult, keyed by party name
    scored,          \* the results slice before the final sort
    matchResults,    \* the slice Match returns
    matchErr,        \* the error Match returns (TRUE for non-nil)
    \* ---- history of the call, for stating the claims ----
    firstSeen,       \* party names in the order they entered partyMatches
    lookups,         \* per party id looked up: what the store answered
    failed,          \* the store calls of Match that returned an error
    \* ---- two callers on their own goroutines ----
    running,         \* the caller whose locals the variables above hold (0: one caller only)
    parked,          \* the locals of the caller that is not running
    alone,           \* <<what the same call returned when it was made before, alone>>
    \* ---- the reference year taken from the text itself ----
    headerText,      \* the text handed to ExtractYearFromHeader and ParseWithAutoYear
    clockYear,       \* time.Now().Year()
    yearFound,       \* per function called: the year it arrived at
    \* ---- the import of a receipt book into the store ----
    partyTable,        \* table parties: the name of each row, at its id
    identifierTable,   \* table identifiers: rows [Type, Value, PartyID], UNIQUE(type, value)
    transactionTable,  \* table transactions: rows [PartyID, Tx]
    importers          \* per request goroutine: the locals of ImportConfirm and importTransaction

parserVars == <<tables, lines, year, i, transactions, currentTx, narrationLines, lastDate, pc,
                opened, emittedFrom, curFrom>>

detectVars == <<txNarration, txPaymentMode>>
extractVars == <<exNarration, exUpper, identifiers, seen, exPc, results>>
\* what an action of the parser leaves alone
scoreVars == <<matchedOn, calcReturn>>
matchVars == <<mPc, txCount, matches, patterns, partyMatches, scored, matchResults, matchErr,
               firstSeen, lookups, failed>>
concVars == <<running, parked, alone>>
yearVars == <<headerText, clockYear, yearFound>>
importVars == <<partyTable, identifierTable, transactionTable, importers>>
\* what no step of Parse, Extract or Match touches
serverVars == <<concVars, yearVars, importVars>>
notParserVars == <<detectVars, extractVars, scoreVars, matchVars, serverVars>>
ExtractIdle ==
    /\ exNarration = "" /\ exUpper = "" /\ identifiers = <<>> /\ seen = {}
    /\ exPc = "idle" /\ results = <<>>
ScoreIdle == matchedOn = <<>> /\ calcReturn = <<>>
MatchIdle ==
    /\ mPc = "idle" /\ txCount = <<>> /\ matches = <<>> /\ patterns = <<>> /\ partyMatches = <<>>
    /\ scored = <<>> /\ matchResults = <<>> /\ matchErr = FALSE
    /\ firstSeen = <<>> /\ lookups = <<>> /\ failed = {}

ConcIdle == running = 0 /\ parked = <<>> /\ alone = <<>>
YearIdle == headerText = "" /\ clockYear = 0 /\ yearFound = <<>>
ImportIdle ==
    partyTable = <<>> /\ identifierTable = {} /\ transactionTable = <<>> /\ importers = <<>>
ServerIdle == ConcIdle /\ YearIdle /\ ImportIdle

vars == <<parserVars, detectVars, extractVars, scoreVars, matchVars, serverVars>>

-----------------------------------------------------------------------------
(* Characters and the functions of Go's strings package used by the code.  *)

Digit == {"0","1","2","3","4","5","6","7","8","9"}
UpperAZ == {"A","B","C","D","E","F","G","H","I","J","K","L","M",
            "N","O","P","Q","R","S","T","U","V","W","X","Y","Z"}
LowerAZ == {"a","b","c","d","e","f","g","h","i","j","k","l","m",
            "n","o","p","q","r","s","t","u","v","w","x","y","z"}
Letter == UpperAZ \cup LowerAZ
Space == {" ", "\t", "\n", "\r", "\f"}

UpperSeq == "ABCDEFGHIJKLMNOPQRSTUVWXYZ"
LowerSeq == "abcdefghijklmnopqrstuvwxyz"

At(s, k) == SubSeq(s, k, k)

UpperOf == [c \in LowerAZ |-> At(UpperSeq, CHOOSE k \in 1..26 : At(LowerSeq, k) = c)]
LowerOf == [c \in UpperAZ |-> At(LowerSeq, CHOOSE k \in 1..26 : At(UpperSeq, k) = c)]

Up(c) == IF c \in LowerAZ THEN UpperOf[c] ELSE c
Lo(c) == IF c \in UpperAZ THEN LowerOf[c] ELSE c

RECURSIVE ToUpper(_)
ToUpper(s) == IF s = "" THEN "" ELSE Up(At(s, 1)) \o ToUpper(SubSeq(s, 2, Len(s)))

HasPrefix(s, p) == Len(p) <= Len(s) /\ SubSeq(s, 1, Len(p)) = p
HasSuffix(s, p) == Len(p) <= Len(s) /\ SubSeq(s, Len(s) - Len(p) + 1, Len(s)) = p
Contains(s, sub) == \E k \in 1..(Len(s) - Len(sub) + 1) : SubSeq(s, k, k + Len(sub) - 1) = sub

RECURSIVE TrimLeft(_)
TrimLeft(s) == IF s # "" /\ At(s, 1) \in Space THEN TrimLeft(SubSeq(s, 2, Len(s))) ELSE s
RECURSIVE TrimRight(_)
TrimRight(s) == IF s # "" /\ At(s, Len(s)) \in Space THEN TrimRight(SubSeq(s, 1, Len(s) - 1)) ELSE s
TrimSpace(s) == TrimRight(TrimLeft(s))

\* strings.Fields: the maximal runs of non-space characters, in order
RECURSIVE FieldsFrom(_, _, _)
FieldsFrom(s, k, word) ==
    IF k > Len(s) THEN (IF word = "" THEN <<>> ELSE <<word>>)
    ELSE IF At(s, k) \in Space
         THEN (IF word = "" THEN <<>> ELSE <<word>>) \o FieldsFrom(s, k + 1, "")
         ELSE FieldsFrom(s, k + 1, word \o At(s, k))
Fields(s) == FieldsFrom(s, 1, "")

RECURSIVE Join(_, _)
Join(ss, sep) ==
    IF Len(ss) = 0 THEN ""
    ELSE IF Len(ss) = 1 THEN ss[1]
    ELSE ss[1] \o sep \o Join(Tail(ss), sep)

-----------------------------------------------------------------------------
(* Go's regexp package: syntax trees and a leftmost-first matcher.         *)

Lit(str)        == [t |-> "lit", s |-> str]
Cls(cs)         == [t |-> "set", cs |-> cs, neg |-> FALSE]
NCls(cs)        == [t |-> "set", cs |-> cs, neg |-> TRUE]
Cat(rs)         == [t |-> "cat", rs |-> rs]
Alt(rs)         == [t |-> "alt", rs |-> rs]
Rep(r, lo, hi)  == [t |-> "rep", r |-> r, lo |-> lo, hi |-> hi, lazy |-> FALSE]
Lazy(r, lo, hi) == [t |-> "rep", r |-> r, lo |-> lo, hi |-> hi, lazy |-> TRUE]
Cap(n, r)       == [t |-> "cap", n |-> n, r |-> r]
Bol             == [t |-> "bol"]
Eol             == [t |-> "eol"]
Dot             == NCls({"\n"})
Many            == 100000      \* the open upper end of * and +
Star(r)         == Rep(r, 0, Many)
Plus(r)         == Rep(r, 1, Many)
Opt(r)          == Rep(r, 0, 1)
\* a compiled pattern: its tree and whether (?i) is in force
Re(tree)        == [tree |-> tree, ci |-> FALSE]
ReI(tree)       == [tree |-> tree, ci |-> TRUE]

NoCaps == <<<<0, 0>>, <<0, 0>>, <<0, 0>>>>

RECURSIVE LitAt(_, _, _, _, _)
LitAt(s, p, lit, k, ci) ==
    \/ k > Len(lit)
    \/ /\ p + k - 1 <= Len(s)
       /\ IF ci THEN Up(At(s, p + k - 1)) = Up(At(lit, k))
                ELSE At(s, p + k - 1) = At(lit, k)
       /\ LitAt(s, p, lit, k + 1, ci)

InClass(c, cs, ci) == c \in cs \/ (ci /\ (Up(c) \in cs \/ Lo(c) \in cs))

RECURSIVE M(_, _, _, _, _), MSeq(_, _, _, _, _, _), Thread(_, _, _, _, _, _),
          MAlt(_, _, _, _, _, _), MRep(_, _, _, _, _, _), ThreadRep(_, _, _, _, _, _, _)
\* every way tree r matches s from position p, in the order a backtracking
\* matcher tries them: [e |-> position after the match, c |-> captures]
M(r, s, p, c, ci) ==
    CASE r.t = "lit" -> IF LitAt(s, p, r.s, 1, ci) THEN <<[e |-> p + Len(r.s), c |-> c]>> ELSE <<>>
      [] r.t = "set" -> IF p <= Len(s) /\ (InClass(At(s, p), r.cs, ci) # r.neg)
                        THEN <<[e |-> p + 1, c |-> c]>> ELSE <<>>
      [] r.t = "bol" -> IF p = 1 THEN <<[e |-> p, c |-> c]>> ELSE <<>>
      [] r.t = "eol" -> IF p = Len(s) + 1 THEN <<[e |-> p, c |-> c]>> ELSE <<>>
      [] r.t = "cat" -> MSeq(r.rs, 1, s, p, c, ci)
      [] r.t = "alt" -> MAlt(r.rs, 1, s, p, c, ci)
      [] r.t = "rep" -> MRep(r, 0, s, p, c, ci)
      [] r.t = "cap" -> LET ms == M(r.r, s, p, c, ci)
                        IN [k \in 1..Len(ms) |->
                              [e |-> ms[k].e, c |-> [ms[k].c EXCEPT ![r.n] = <<p, ms[k].e>>]]]
MSeq(rs, k, s, p, c, ci) ==
    IF k > Len(rs) THEN <<[e |-> p, c |-> c]>>
    ELSE Thread(M(rs[k], s, p, c, ci), 1, rs, k + 1, s, ci)
Thread(ms, j, rs, k, s, ci) ==
    IF j > Len(ms) THEN <<>>
    ELSE MSeq(rs, k, s, ms[j].e, ms[j].c, ci) \o Thread(ms, j + 1, rs, k, s, ci)
MAlt(rs, k, s, p, c, ci) ==
    IF k > Len(rs) THEN <<>>
    ELSE M(rs[k], s, p, c, ci) \o MAlt(rs, k + 1, s, p, c, ci)
MRep(r, n, s, p, c, ci) ==
    LET stop == IF n >= r.lo THEN <<[e |-> p, c |-> c]>> ELSE <<>>
        more == IF n < r.hi THEN ThreadRep(M(r.r, s, p, c, ci), 1, r, n + 1, s, p, ci) ELSE <<>>
    IN IF r.lazy THEN stop \o more ELSE more \o stop
ThreadRep(ms, j, r, n, s, p, ci) ==
    IF j > Len(ms) THEN <<>>
    ELSE (IF ms[j].e > p THEN MRep(r, n, s, ms[j].e, ms[j].c, ci) ELSE <<>>)
         \o ThreadRep(ms, j + 1, r, n, s, p, ci)

\* the leftmost match at or after position p: [ok, b (start), e (end + 1), c]
RECURSIVE FindFrom(_, _, _)
FindFrom(re, s, p) ==
    IF p > Len(s) + 1 THEN [ok |-> FALSE]
    ELSE LET ms == M(re.tree, s, p, NoCaps, re.ci)
         IN IF Len(ms) > 0 THEN [ok |-> TRUE, b |-> p, e |-> ms[1].e, c |-> ms[1].c]
            ELSE FindFrom(re, s, p + 1)

\* (*Regexp).MatchString
MatchString(re, s) == FindFrom(re, s, 1).ok
\* (*Regexp).FindStringSubmatch: m.g[n] is submatch n, m.g0 the whole match
Group(s, m, n) == IF m.c[n] = <<0, 0>> THEN "" ELSE SubSeq(s, m.c[n][1], m.c[n][2] - 1)
FindStringSubmatch(re, s) == FindFrom(re, s, 1)
\* (*Regexp).FindAllStringSubmatch(s, -1): successive non-overlapping matches
RECURSIVE FindAllFrom(_, _, _)
FindAllFrom(re, s, p) ==
    LET m == FindFrom(re, s, p)
    IN IF ~m.ok THEN <<>>
       ELSE <<m>> \o FindAllFrom(re, s, IF m.e > m.b THEN m.e ELSE m.e + 1)
FindAll(re, s) == FindAllFrom(re, s, 1)
\* (*Regexp).ReplaceAllString(s, ""): s with every match removed
RECURSIVE RemoveFrom(_, _, _)
RemoveFrom(re, s, p) ==
    LET m == FindFrom(re, s, p)
    IN IF ~m.ok THEN SubSeq(s, p, Len(s))
       ELSE IF m.e > m.b THEN SubSeq(s, p, m.b - 1) \o RemoveFrom(re, s, m.e)
       ELSE SubSeq(s, p, m.b) \o RemoveFrom(re, s, m.e + 1)
RemoveAll(re, s) == RemoveFrom(re, s, 1)

-----------------------------------------------------------------------------
(* package parser: the patterns.                                           *)

WS1 == Plus(Cls(Space))
WS0 == Star(Cls(Space))
D(n) == Rep(Cls(Digit), n, n)
Nums == Plus(Cls(Digit \cup {",", "."}))

Months == <<"Jan", "Feb", "Mar", "Apr", "May", "Jun", "Jul", "Aug", "Sep", "Oct", "Nov", "Dec">>

\* ^(Jan|Feb|...|Dec)\s+(\d{1,2})\s+
datePattern ==
    Re(Cat(<<Bol, Cap(1, Alt([k \in 1..12 |-> Lit(Months[k])])), WS1,
             Cap(2, Rep(Cls(Digit), 1, 2)), WS1>>))

\* (\d+(?:\.\d{2})?)\s*$
amountPattern ==
    Re(Cat(<<Cap(1, Cat(<<Plus(Cls(Digit)), Opt(Cat(<<Lit("."), D(2)>>))>>)), WS0, Eol>>))

BankWords == <<"ICICI", "HDFC", "SBI", "PNB", "AXIS", "KOTAK", "YES", "IDBI", "CANARA", "BOI",
               "BOB", "IDFC", "UNION", "INDIAN", "UCO", "CENTRAL", "PUNJAB", "BARODA",
               "ALLAHABAD", "ANDHRA", "BANK", "STATE">>

\* ^(?i)(ICICI|HDFC|...|STATE)\s+\d+\s+[\d,.]+
bankAccountPattern ==
    ReI(Cat(<<Bol, Cap(1, Alt([k \in 1..Len(BankWords) |-> Lit(BankWords[k])])), WS1,
              Plus(Cls(Digit)), WS1, Nums>>))

skipPatterns == <<
    ReI(Cat(<<Bol, Lit("SUB"), WS1, Lit("TOTAL")>>)),
    ReI(Lit("...Continued")),
    ReI(Cat(<<Bol, Lit("SUSPENSE"), WS1, Lit("A/C")>>)),
    ReI(Cat(<<Bol, WS0, Eol>>)),
    Re(Cat(<<Bol, Plus(Lit("-")), Eol>>)),
    ReI(Cat(<<Bol, Lit("TOTAL"), WS1, Nums, WS1, Nums, Eol>>)),
    ReI(Cat(<<Bol, Lit("***"), Star(Dot), Lit("***"), Eol>>)),
    ReI(Cat(<<Bol, Lit("DATE"), WS1, Lit("PARTICULARS"), WS1, Lit("DEBIT"), WS1, Lit("CREDIT")>>)),
    ReI(Cat(<<Bol, Lit("RECEIPT"), WS1, Lit("BOOK")>>)),
    ReI(Cat(<<Bol, Lit("DURGA"), WS1, Lit("DAWA"), WS1, Lit("GHAR")>>)),
    ReI(Cat(<<Bol, D(2), Lit("-"), D(2), Lit("-"), D(4), WS1, Lit("-"), WS1,
              D(2), Lit("-"), D(2), Lit("-"), D(4), Eol>>)),
    ReI(Cat(<<Bol, Lit("E-Mail"), WS0, Lit(":")>>)),
    ReI(Cat(<<Bol, Lit("D"), Opt(Lit(".")), Lit("L"), Opt(Lit(".")), WS0, Lit("No"),
              Opt(Lit(".")), WS0, Lit(":")>>)),
    ReI(Cat(<<Bol, Lit("GSTIN"), WS0, Lit(":")>>)),
    ReI(Cat(<<Bol, Plus(Cls(Digit)), Lit("/"), Plus(Cls(Digit)), Lit(",")>>)) >>

\* (?i)^UPI/|/UPI/|/UPI$|\sUPI/
upiModePattern ==
    ReI(Alt(<<Cat(<<Bol, Lit("UPI/")>>), Lit("/UPI/"), Cat(<<Lit("/UPI"), Eol>>),
              Cat(<<Cls(Space), Lit("UPI/")>>)>>))
\* (?i)IMPS/|/IMPS/|MMT/IMPS
impsModePattern == ReI(Alt(<<Lit("IMPS/"), Lit("/IMPS/"), Lit("MMT/IMPS")>>))
\* (?i)\sNEFT-|^NEFT-
neftModePattern == ReI(Alt(<<Cat(<<Cls(Space), Lit("NEFT-")>>), Cat(<<Bol, Lit("NEFT-")>>)>>))
\* (?i)\sRTGS-|^RTGS-
rtgsModePattern == ReI(Alt(<<Cat(<<Cls(Space), Lit("RTGS-")>>), Cat(<<Bol, Lit("RTGS-")>>)>>))
\* (?i)\sCLG/|^CLG/
clgModePattern == ReI(Alt(<<Cat(<<Cls(Space), Lit("CLG/")>>), Cat(<<Bol, Lit("CLG/")>>)>>))
\* (?i)\sINF/|^INF/|^INFT/|/INFT/|\sINFT/
infModePattern ==
    ReI(Alt(<<Cat(<<Cls(Space), Lit("INF/")>>), Cat(<<Bol, Lit("INF/")>>),
              Cat(<<Bol, Lit("INFT/")>>), Lit("/INFT/"), Cat(<<Cls(Space), Lit("INFT/")>>)>>))
\* (?i)Chq\.|Cheque|CHQ
chqModePattern == ReI(Alt(<<Lit("Chq."), Lit("Cheque"), Lit("CHQ")>>))
\* (?i)FT-MESPOS|MESPOS\s+SET|POS\s+MACHINE
posModePattern ==
    ReI(Alt(<<Lit("FT-MESPOS"), Cat(<<Lit("MESPOS"), WS1, Lit("SET")>>),
              Cat(<<Lit("POS"), WS1, Lit("MACHINE")>>)>>))
\* (?i)^BY\s+CASH|\sBY\s+CASH|CASH\s+DEP|CAM/
cashModePattern ==
    ReI(Alt(<<Cat(<<Bol, Lit("BY"), WS1, Lit("CASH")>>),
              Cat(<<Cls(Space), Lit("BY"), WS1, Lit("CASH")>>),
              Cat(<<Lit("CASH"), WS1, Lit("DEP")>>), Lit("CAM/")>>))

\* \s*Ag\.\s*.*$
invoiceRefPattern == Re(Cat(<<WS0, Lit("Ag."), WS0, Star(Dot), Eol>>))

-----------------------------------------------------------------------------
(* package parser: dates, amounts and the line functions.                  *)

DigitSeq == "0123456789"
DigitVal(c) == (CHOOSE k \in 1..10 : At(DigitSeq, k) = c) - 1
\* strconv.Atoi on a string of digits
RECURSIVE Atoi(_)
Atoi(s) == IF s = "" THEN 0 ELSE Atoi(SubSeq(s, 1, Len(s) - 1)) * 10 + DigitVal(At(s, Len(s)))

\* the digits read as a whole number, the decimal point ignored
ParseFloatUnscaled(s) ==
    IF Len(s) >= 3 /\ At(s, Len(s) - 2) = "."
    THEN Atoi(SubSeq(s, 1, Len(s) - 3))
    ELSE Atoi(s)

\* strconv.ParseFloat on a match of \d+(?:\.\d{2})?, as an exact number of
\* hundredths (the float64 the code keeps is this number divided by 100)
ParseFloat(s) ==
    IF Len(s) >= 3 /\ At(s, Len(s) - 2) = "."
    THEN Atoi(SubSeq(s, 1, Len(s) - 3)) * 100 + Atoi(SubSeq(s, Len(s) - 1, Len(s)))
    ELSE Atoi(s) * 100

IsLeap(y) == (y % 4 = 0 /\ y % 100 # 0) \/ y % 400 = 0
DaysIn(y, m) == IF m = 2 THEN (IF IsLeap(y) THEN 29 ELSE 28)
                ELSE IF m \in {4, 6, 9, 11} THEN 30 ELSE 31
\* time.Date(year, month, day, 0, 0, 0, 0, time.UTC): out-of-range days roll over
RECURSIVE TimeDate(_, _, _)
TimeDate(y, m, d) ==
    IF d < 1 THEN (IF m = 1 THEN TimeDate(y - 1, 12, d + 31)
                   ELSE TimeDate(y, m - 1, d + DaysIn(y, m - 1)))
    ELSE IF d > DaysIn(y, m) THEN (IF m = 12 THEN TimeDate(y + 1, 1, d - 31)
                                   ELSE TimeDate(y, m + 1, d - DaysIn(y, m)))
    ELSE [y |-> y, m |-> m, d |-> d]
ZeroTime == [y |-> 1, m |-> 1, d |-> 1]
monthMap(name) == CHOOSE k \in 1..12 : Months[k] = name

nonLocationWords == {"BUSINESS", "MACHINE", "STORE", "AGENCY", "TRADERS", "PHARMA", "CHEMIST",
                     "MEDICOS", "MEDICAL", "DRUG", "HOUSE", "HALL", "CENTRE", "CENTER"}

locationIndicators == {
    "DELHI", "MUMBAI", "KOLKATA", "CHENNAI", "BANGALORE", "HYDERABAD", "AHMEDABAD", "PUNE", "SURAT",
    "JAIPUR", "LUCKNOW", "KANPUR", "NAGPUR", "INDORE", "THANE", "BHOPAL", "PATNA", "VADODARA",
    "GHAZIABAD", "LUDHIANA", "AGRA", "NASHIK", "FARIDABAD", "MEERUT", "RAJKOT", "VARANASI", "SRINAGAR",
    "AURANGABAD", "DHANBAD", "AMRITSAR", "JODHPUR", "RAIPUR", "RANCHI", "GWALIOR", "CHANDIGARH", "VIJAYAWADA",
    "MADURAI", "COIMBATORE", "KOCHI", "GUWAHATI", "BHUBANESWAR", "DEHRADUN", "NOIDA", "GURUGRAM", "GURGAON",
    "NCR", "GWALIOUR", "SEKHREJ", "SHAMBHUA", "MUSKRA", "BILLHAUR", "RASULABAD", "MUNGISAPUR", "JUNIHA",
    "MAHARAMAU", "AKBARPUR", "AKABARPUR", "CHIBRAMAU", "DHAURA", "CHAMIYANI", "CHAUDAGRA", "BARAUR", "INDERGAR",
    "GHATAMPUR", "BITHOOR", "BIGHAPUR", "BAIRAGIHAR", "SIKANDRA", "ACHALGANJ", "PUKHRAYA", "PUKHRAYAN", "DIBIAPUR",
    "DIBIYAPUR", "MIYAGANJ", "AURAIYA", "LALITPUR", "MAKANPUR", "RAATH", "KHAKHRERU", "SAHAYAL", "CHANI",
    "SAJETI", "BASIRAT", "JALLAUN", "BANGARMAU", "ALIYAPUR", "TIRWA", "BAKEWAR", "BHAUTY", "KANNOUJ",
    "KONCH", "NAWABGANJ", "FATEHPUR", "ORAI", "HARDOI", "UNNAO", "SITAPUR", "ETAWAH", "BANDA",
    "JHANSI", "HAMEERPUR", "BHEWAN", "NABIPUR", "TISTI", "UMARDA", "TALEGRAM", "KENJARI", "KENJARY",
    "JHIJHAK", "HASEERAN", "SHIVRAJPUR", "BAHOSI", "KUDANY", "VISHDHAN", "KAKVAN", "MAUDAHA", "JAHANABAD",
    "MURADIPUR", "PARSAULI", "AJGAIN", "RAMAIPUR", "DHANI", "BARUA", "SAHAR", "KHAJUA", "FARRUKHABAD",
    "LAKHIMPUR", "GONDA", "SHIVLI", "MANIMAU", "ROORA", "ROOMA", "RANIA", "NOONARI", "NARWAL",
    "TIKRA", "BHARUA", "CHHIBRAMAU", "FAZALGANJ", "KALYANPUR", "KALYAN", "KAKADEV", "BIRHANA", "MANISHA",
    "SUMER", "BEEGAHPUR", "HASWA", "SIRATHU", "VIJAIPUR", "ATARDHANI", "MAURANIPUR", "SACHENDI", "BITHHOR",
    "BARAIGHAR", "HAPUR", "GEHLO", "DEHAT", "NAUBASTA", "PANKI", "BHAGHPUR", "NARAMAU", "THATHIA",
    "REWARI", "BAIRAMPUR", "GALUAPUR", "SAROSI", "AGAUS", "PATARA", "BANIPARA", "MAQSUDABAD", "TIGAI",
    "HAIDRABAD", "KHEDA", "ALLIPUR", "ASHOTHAR", "THARIYAOAN", "SIMRI", "CHAURA", "CHOWKI", "CHHILLA",
    "SAHLI", "SAKURABAD", "SUMRAHA", "MURADAB", "GURSHAYAN", "BARADEVI", "BARRA", "PATARSA", "KHAGA",
    "KORIYAN", "BHOGNIPUR", "RAJPUR", "SAHJHANPUR" }

RECURSIVE AllIn(_, _)
AllIn(s, cs) == s = "" \/ (At(s, 1) \in cs /\ AllIn(SubSeq(s, 2, Len(s)), cs))

parsePartyNameLocation(text0) ==
    LET text == TrimSpace(text0)
        words == Fields(text)
        n == Len(words)
        lastWord == ToUpper(words[n])
        split == <<Join(SubSeq(words, 1, n - 1), " "), words[n]>>
    IN IF n = 0 THEN <<text, "">>
       ELSE IF lastWord \in nonLocationWords THEN <<text, "">>
       ELSE IF n > 1 /\ \E loc \in locationIndicators : HasPrefix(lastWord, loc) THEN split
       ELSE IF n > 1 /\ Len(lastWord) < 15 /\ lastWord = words[n]
               /\ AllIn(lastWord, UpperAZ) /\ Len(lastWord) > 2 THEN split
       ELSE <<text, "">>

Transaction(date, name, location, amount) ==
    [Date |-> date, PartyName |-> name, Location |-> location, Amount |-> amount,
     Narration |-> "", PaymentMode |-> ""]

\* the amount at the end of remaining and what is left of it
TakeAmount(remaining) ==
    LET amountMatch == FindStringSubmatch(amountPattern, remaining)
    IN IF amountMatch.ok
       THEN [Amount |-> ParseFloat(Group(remaining, amountMatch, 1)),
             rest |-> RemoveAll(amountPattern, remaining)]
       ELSE [Amount |-> 0, rest |-> remaining]

shouldSkipLine(line) ==
    line = "" \/ \E k \in 1..Len(skipPatterns) : MatchString(skipPatterns[k], line)

parseFirstLine(line, y) ==
    LET dateMatch == FindStringSubmatch(datePattern, line)
        day == Atoi(Group(line, dateMatch, 2))
        month == monthMap(Group(line, dateMatch, 1))
        a == TakeAmount(RemoveAll(datePattern, line))
        nl == parsePartyNameLocation(TrimSpace(a.rest))
    IN Transaction(TimeDate(y, month, day), nl[1], nl[2], a.Amount)

narrationPrefixes == <<"UPI/", "NEFT-", "RTGS-", "IMPS/", "MMT/", "CLG/", "INF/", "INFT/",
                       "CHQ.", "CHEQUE", "BY CASH", "FT-MESPOS", "BIL/">>

isPartyLine(line) ==
    LET upperLine == ToUpper(line)
        words == Fields(TrimSpace(RemoveAll(amountPattern, line)))
    IN /\ MatchString(amountPattern, line)
       /\ \A k \in 1..Len(narrationPrefixes) : ~HasPrefix(upperLine, narrationPrefixes[k])
       /\ ~MatchString(bankAccountPattern, line)
       /\ Len(words) >= 2
       /\ At(words[1], 1) \in Letter

\* the additional party opened without the inherited date
parsePartyLineUndated(line, inheritedDate) ==
    LET a == TakeAmount(line)
        nl == parsePartyNameLocation(TrimSpace(a.rest))
    IN Transaction(ZeroTime, nl[1], nl[2], a.Amount)

parsePartyLine(line, inheritedDate) ==
    LET a == TakeAmount(line)
        nl == parsePartyNameLocation(TrimSpace(a.rest))
    IN Transaction(inheritedDate, nl[1], nl[2], a.Amount)

buildNarration(ls) == Join(ls, " ")

\* the UPI check moved ahead of the IMPS check
detectPaymentModeUpiFirst(narration) ==
    IF MatchString(rtgsModePattern, narration) THEN "RTGS"
    ELSE IF MatchString(neftModePattern, narration) THEN "NEFT"
    ELSE IF MatchString(upiModePattern, narration) THEN "UPI"
    ELSE IF MatchString(impsModePattern, narration) THEN "IMPS"
    ELSE IF MatchString(clgModePattern, narration) THEN "CLG"
    ELSE IF MatchString(infModePattern, narration) THEN "INF"
    ELSE IF MatchString(chqModePattern, narration) THEN "CHEQUE"
    ELSE IF MatchString(posModePattern, narration) THEN "POS"
    ELSE IF MatchString(cashModePattern, narration) THEN "CASH"
    ELSE "OTHER"

detectPaymentMode(narration) ==
    IF MatchString(rtgsModePattern, narration) THEN "RTGS"
    ELSE IF MatchString(neftModePattern, narration) THEN "NEFT"
    ELSE IF MatchString(impsModePattern, narration) THEN "IMPS"
    ELSE IF MatchString(upiModePattern, narration) THEN "UPI"
    ELSE IF MatchString(clgModePattern, narration) THEN "CLG"
    ELSE IF MatchString(infModePattern, narration) THEN "INF"
    ELSE IF MatchString(chqModePattern, narration) THEN "CHEQUE"
    ELSE IF MatchString(posModePattern, narration) THEN "POS"
    ELSE IF MatchString(cashModePattern, narration) THEN "CASH"
    ELSE "OTHER"

\* the check with the upper-casing left out
isSuspenseCaseSensitive(tx) == Contains(tx.PartyName, "SUSPENSE A/C")

\* strings.Contains(strings.ToUpper(tx.PartyName), "SUSPENSE A/C")
isSuspense(tx) == Contains(ToUpper(tx.PartyName), "SUSPENSE A/C")

\* invoiceRefPattern.ReplaceAllString(line, "") followed by strings.TrimSpace
cleanLine(line) == TrimSpace(RemoveAll(invoiceRefPattern, line))

-----------------------------------------------------------------------------
(* The inputs of Parse.  A text is given by its lines (strings.Split(text,  *)
(* "\n") of the text they spell), each drawn from LineVocab.               *)

MaxLines == 4

LineVocab == {
    "Apr 2 NIDHI STORE GEHLO 5361.00",          \* date-started party line
    "  Apr 3 RAM MEDICOS 17.50 ",               \* another date, untrimmed
    "PANKAJ MEDICAL KANPUR 3780.00",            \* undated additional party line
    "ICICI 192105002017 9141.00",               \* bank-account line
    "UPI/5458/UPI/ALOK@/PNB",                   \* narration line
    "Dec 26 SUSPENSE A/C 1000.00",              \* date-started suspense entry
    "Xyz Suspense a/c 500.00",                  \* undated suspense party line
    "SUB TOTAL 73494.00",                       \* noise line
    "CASH 3780.00",                             \* one-word party and amount
    "TRF/MAA AND/ICI/13.10.2025",               \* narration ending in digits
    "Chq.5677 Dt. 03-04-2025 Ag. DDG034269" }   \* narration with invoice reference

Years == {2025}

Texts == UNION {[1..n -> LineVocab] : n \in 1..MaxLines}

(* The line functions are evaluated once per vocabulary line and looked up *)
(* by the actions.                                                         *)
TrimmedVocab == {TrimSpace(l) : l \in LineVocab}
LineFacts ==
    [l \in TrimmedVocab |->
        [skip  |-> shouldSkipLine(l),
         date  |-> MatchString(datePattern, l),
         bank  |-> MatchString(bankAccountPattern, l),
         party |-> isPartyLine(l),
         clean |-> cleanLine(l)]]
FirstLineOf ==
    [l \in {t \in TrimmedVocab : LineFacts[t].date}, y \in Years |-> parseFirstLine(l, y)]
DatesSeen == {FirstLineOf[a].Date : a \in DOMAIN FirstLineOf}
PartyLineOf ==
    [l \in {t \in TrimmedVocab : LineFacts[t].party}, d \in DatesSeen |-> parsePartyLine(l, d)]
\* the cleaned lines the loop can append to narrationLines, and the buffers
\* they can form
Appendable ==
    {LineFacts[l].clean : l \in {t \in TrimmedVocab :
        /\ ~LineFacts[t].skip /\ ~LineFacts[t].date
        /\ (LineFacts[t].bank \/ ~LineFacts[t].party)}} \ {""}
NarrationSeqs == UNION {[1..n -> Appendable] : n \in 0..(MaxLines - 1)}
Flushed ==
    [ls \in NarrationSeqs |->
        LET narration == buildNarration(ls)
        IN [Narration |-> narration, PaymentMode |-> detectPaymentMode(narration)]]
ParserTables ==
    [LineFacts   |-> LineFacts @@ <<>>,
     FirstLineOf |-> FirstLineOf @@ <<>>,
     PartyLineOf |-> PartyLineOf @@ <<>>,
     Flushed     |-> Flushed @@ <<>>]

-----------------------------------------------------------------------------
(* parser.Parse as a state machine: one action per branch of the loop body *)

ParseInit ==
    /\ tables = ParserTables
    /\ lines \in Texts
    /\ year \in Years
    /\ i = 1
    /\ transactions = <<>>
    /\ currentTx = <<>>
    /\ narrationLines = <<>>
    /\ lastDate = ZeroTime
    /\ pc = "loop"
    /\ opened = <<>>
    /\ emittedFrom = <<>>
    /\ curFrom = 0
    /\ txNarration = "" /\ txPaymentMode = ""
    /\ ExtractIdle
    /\ ScoreIdle
    /\ MatchIdle
    /\ ServerIdle

InLoop == pc = "loop" /\ i <= Len(lines)
Line == TrimSpace(lines[i])
Facts == tables.LineFacts[Line]

\* the narration also written to the transactions already emitted for the date
FlushShared(txs, cur, nl) ==
    Append([k \in 1..Len(txs) |->
               IF txs[k].Date = cur.Date
               THEN [txs[k] EXCEPT !.Narration = tables.Flushed[nl].Narration,
                                   !.PaymentMode = tables.Flushed[nl].PaymentMode]
               ELSE txs[k]],
           [cur EXCEPT !.Narration = tables.Flushed[nl].Narration,
                       !.PaymentMode = tables.Flushed[nl].PaymentMode])

\* currentTx.Narration = buildNarration(narrationLines); currentTx.PaymentMode =
\* detectPaymentMode(currentTx.Narration); transactions = append(transactions, *currentTx)
Flush(txs, cur, nl) ==
    Append(txs, [cur EXCEPT !.Narration = tables.Flushed[nl].Narration,
                            !.PaymentMode = tables.Flushed[nl].PaymentMode])

\* the transaction parsed from a header line becomes current unless it is a
\* suspense entry
Open(tx) ==
    IF isSuspense(tx)
    THEN currentTx' = <<>> /\ curFrom' = 0 /\ opened' = opened
    ELSE currentTx' = <<tx>> /\ curFrom' = i /\ opened' = Append(opened, i)

FlushCurrent ==
    /\ transactions' = Flush(transactions, currentTx[1], narrationLines)
    /\ emittedFrom' = Append(emittedFrom, curFrom)

SkipLine ==
    /\ InLoop
    /\ Facts.skip
    /\ i' = i + 1
    /\ UNCHANGED <<notParserVars, tables, lines, year, transactions, currentTx, narrationLines, lastDate, pc,
                   opened, emittedFrom, curFrom>>

DateLine ==
    /\ InLoop
    /\ ~Facts.skip
    /\ Facts.date
    /\ IF currentTx # <<>> THEN FlushCurrent ELSE UNCHANGED <<transactions, emittedFrom>>
    /\ LET tx == tables.FirstLineOf[Line, year]
       IN lastDate' = tx.Date /\ Open(tx)
    /\ narrationLines' = <<>>
    /\ i' = i + 1
    /\ UNCHANGED <<notParserVars, tables, lines, year, pc>>

\* a bank-account line that is left out of the narration
BankLineLeftOut ==
    /\ InLoop
    /\ ~Facts.skip
    /\ ~Facts.date
    /\ currentTx # <<>>
    /\ Facts.bank
    /\ i' = i + 1
    /\ UNCHANGED <<notParserVars, tables, lines, year, transactions, currentTx, narrationLines,
                   lastDate, pc, opened, emittedFrom, curFrom>>

BankLine ==
    /\ InLoop
    /\ ~Facts.skip
    /\ ~Facts.date
    /\ currentTx # <<>>
    /\ Facts.bank
    /\ narrationLines' = IF Facts.clean # "" THEN Append(narrationLines, Facts.clean)
                         ELSE narrationLines
    /\ i' = i + 1
    /\ UNCHANGED <<notParserVars, tables, lines, year, transactions, currentTx, lastDate, pc,
                   opened, emittedFrom, curFrom>>

PartyLine ==
    /\ InLoop
    /\ ~Facts.skip
    /\ ~Facts.date
    /\ currentTx # <<>>
    /\ ~Facts.bank
    /\ Facts.party
    /\ FlushCurrent
    /\ Open(tables.PartyLineOf[Line, lastDate])
    /\ narrationLines' = <<>>
    /\ i' = i + 1
    /\ UNCHANGED <<notParserVars, tables, lines, year, lastDate, pc>>

NarrationLine ==
    /\ InLoop
    /\ ~Facts.skip
    /\ ~Facts.date
    /\ currentTx # <<>>
    /\ ~Facts.bank
    /\ ~Facts.party
    /\ narrationLines' = IF Facts.clean # "" THEN Append(narrationLines, Facts.clean)
                         ELSE narrationLines
    /\ i' = i + 1
    /\ UNCHANGED <<notParserVars, tables, lines, year, transactions, currentTx, lastDate, pc,
                   opened, emittedFrom, curFrom>>

\* a line met while no transaction is current is appended to the narration of
\* the transaction emitted last
DroppedLineToLast ==
    /\ InLoop
    /\ ~Facts.skip
    /\ ~Facts.date
    /\ currentTx = <<>>
    /\ transactions' =
          IF transactions = <<>> \/ Facts.clean = "" THEN transactions
          ELSE [transactions EXCEPT ![Len(transactions)].Narration = @ \o " " \o Facts.clean]
    /\ i' = i + 1
    /\ UNCHANGED <<notParserVars, tables, lines, year, currentTx, narrationLines, lastDate, pc,
                   opened, emittedFrom, curFrom>>

\* neither branch of the loop body applies: the line is dropped
DroppedLine ==
    /\ InLoop
    /\ ~Facts.skip
    /\ ~Facts.date
    /\ currentTx = <<>>
    /\ i' = i + 1
    /\ UNCHANGED <<notParserVars, tables, lines, year, transactions, currentTx, narrationLines, lastDate, pc,
                   opened, emittedFrom, curFrom>>

\* the return without the flush of the last transaction
ReturnNoFlush ==
    /\ pc = "loop"
    /\ i > Len(lines)
    /\ pc' = "done"
    /\ UNCHANGED <<notParserVars, tables, lines, year, i, transactions, currentTx, narrationLines, lastDate,
                   opened, emittedFrom, curFrom>>

\* after the loop: flush the last transaction and return
Return ==
    /\ pc = "loop"
    /\ i > Len(lines)
    /\ IF currentTx # <<>> THEN FlushCurrent ELSE UNCHANGED <<transactions, emittedFrom>>
    /\ pc' = "done"
    /\ UNCHANGED <<notParserVars, tables, lines, year, i, currentTx, narrationLines, lastDate, opened, curFrom>>

ParseNext ==
    \/ SkipLine
    \/ DateLine
    \/ BankLine
    \/ PartyLine
    \/ NarrationLine
    \/ DroppedLine
    \/ Return

ParseSpec == ParseInit /\ [][ParseNext]_vars

-----------------------------------------------------------------------------
(* Properties of parser.Parse                                               *)

HasSuspenseMarker(name) == Contains(ToUpper(name), "SUSPENSE A/C")

\* C1: no emitted transaction, and no transaction held as current, has a party
\* name containing "SUSPENSE A/C" in any letter case, whichever kind of line
\* opened it.
C1_NoSuspenseEmitted ==
    /\ \A k \in 1..Len(transactions) : ~HasSuspenseMarker(transactions[k].PartyName)
    /\ \A k \in 1..Len(currentTx) : ~HasSuspenseMarker(currentTx[k].PartyName)

\* a finished call that met an undated and a date-started suspense line while a
\* transaction was current, and emitted only the ordinary entry
C1_Witness ==
    /\ pc = "done"
    /\ lines = <<"Apr 2 NIDHI STORE GEHLO 5361.00", "Xyz Suspense a/c 500.00",
                 "PANKAJ MEDICAL KANPUR 3780.00", "Dec 26 SUSPENSE A/C 1000.00">>
    /\ Len(transactions) = 1
    /\ transactions[1].PartyName = "NIDHI STORE"

(* A ledger entry that is the whole input: a date-started party line, then  *)
(* undated additional party lines, then one shared bank-account line.       *)

LineAt(k) == TrimSpace(lines[k])
FactsAt(k) == tables.LineFacts[LineAt(k)]
LastField(l) == Fields(l)[Len(Fields(l))]

\* digits with an optional two-digit fraction, and their value in hundredths
IsAmountToken(w) ==
    LET n == Len(w)
    IN \/ n >= 1 /\ \A j \in 1..n : At(w, j) \in Digit
       \/ n >= 4 /\ At(w, n - 2) = "." /\ \A j \in (1..n) \ {n - 2} : At(w, j) \in Digit
StatedAmount(w) ==
    LET n == Len(w)
    IN IF n >= 4 /\ At(w, n - 2) = "."
       THEN Atoi(SubSeq(w, 1, n - 3)) * 100 + Atoi(SubSeq(w, n - 1, n))
       ELSE Atoi(w) * 100

NParties == Len(lines) - 1
DateStartedPartyLine(k) ==
    FactsAt(k).date /\ Len(Fields(LineAt(k))) >= 3 /\ IsAmountToken(LastField(LineAt(k)))
\* <party-and-location> <amount>, beginning with a letter, no narration-prefix
\* token at its start, not a bank-account line
UndatedPartyLine(k) ==
    /\ ~FactsAt(k).date
    /\ Len(Fields(LineAt(k))) >= 2 /\ IsAmountToken(LastField(LineAt(k)))
    /\ At(LineAt(k), 1) \in Letter
    /\ \A p \in 1..Len(narrationPrefixes) :
          ~HasPrefix(ToUpper(LineAt(k)), narrationPrefixes[p])
    /\ ~FactsAt(k).bank
BankAccountLine(k) == ~FactsAt(k).date /\ FactsAt(k).bank
MultiPartyEntry ==
    /\ Len(lines) >= 2
    /\ DateStartedPartyLine(1)
    /\ \A k \in 2..NParties : UndatedPartyLine(k)
    /\ BankAccountLine(Len(lines))

EntryDate == tables.FirstLineOf[LineAt(1), year].Date
\* no line of the entry is a noise line and no party line carries the
\* suspense-account marker: the entry is not one the parser is to discard
KeptEntry ==
    /\ MultiPartyEntry
    /\ \A k \in 1..Len(lines) : ~FactsAt(k).skip
    /\ \A k \in 1..NParties : ~HasSuspenseMarker(Join(Fields(LineAt(k)), " "))
\* and every undated party line has at least two words before its amount
PlainMultiPartyEntry ==
    /\ KeptEntry
    /\ \A k \in 2..NParties : Len(Fields(LineAt(k))) >= 3

OnePerPartyLine ==
    /\ Len(transactions) = NParties
    /\ emittedFrom = [k \in 1..NParties |-> k]
    /\ \A k \in 1..Len(transactions) : transactions[k].Date = EntryDate

\* C2 as stated: every entry of one date-started party line, N-1 undated lines
\* of the party-line form and one bank-account line yields exactly N
\* transactions, all with the entry's date (entries the parser is to discard
\* left aside).
C2_AsStated == (pc = "done" /\ KeptEntry) => OnePerPartyLine

\* C2: an entry of one date-started party line, N-1 undated party lines that
\* each have at least two words before the amount, and one bank-account line,
\* with no noise line and no suspense-account party among them, yields exactly
\* N transactions, one per party line in order, all with the date of the
\* date-started line.
C2_OnePerPartyLine == (pc = "done" /\ PlainMultiPartyEntry) => OnePerPartyLine

\* three party lines sharing one bank line were parsed into three transactions
C2_Witness ==
    /\ pc = "done"
    /\ PlainMultiPartyEntry
    /\ NParties = 3
    /\ Len(transactions) = 3
    /\ transactions[3].Date = [y |-> 2025, m |-> 4, d |-> 2]

RECURSIVE SumAmounts(_)
SumAmounts(txs) == IF txs = <<>> THEN 0 ELSE txs[1].Amount + SumAmounts(Tail(txs))
RECURSIVE SumStated(_)
SumStated(n) == IF n = 0 THEN 0 ELSE StatedAmount(LastField(LineAt(n))) + SumStated(n - 1)
BankTotal == StatedAmount(LastField(LineAt(Len(lines))))

\* C3 as stated: the amounts emitted for a multi-party entry whose party lines
\* add up to the bank line's total sum to that total (entries the parser is to
\* discard left aside).
C3_AsStated ==
    (pc = "done" /\ KeptEntry /\ SumStated(NParties) = BankTotal) =>
        SumAmounts(transactions) = BankTotal

\* C3: for an entry as in C2, each emitted transaction carries the amount stated
\* on its own party line, so the emitted amounts sum to the bank line's total
\* whenever the party lines' stated amounts do; the parser never reads the total.
C3_AmountsConserved ==
    (pc = "done" /\ PlainMultiPartyEntry) =>
        /\ Len(transactions) = NParties
        /\ \A k \in 1..NParties : transactions[k].Amount = StatedAmount(LastField(LineAt(k)))
        /\ SumStated(NParties) = BankTotal => SumAmounts(transactions) = BankTotal

\* two parties of 5361.00 and 3780.00 under a bank line of 9141.00
C3_Witness ==
    /\ pc = "done"
    /\ PlainMultiPartyEntry
    /\ NParties = 2
    /\ SumStated(NParties) = BankTotal
    /\ SumAmounts(transactions) = 914100

(* A multi-party entry followed by its shared lines: a date-started line,   *)
(* the lines the parser takes as additional party lines, then at least one  *)
(* bank-account or narration line.                                          *)

AdditionalPartyLine(k) ==
    ~FactsAt(k).skip /\ ~FactsAt(k).date /\ ~FactsAt(k).bank /\ FactsAt(k).party
SharedLine(k) ==
    ~FactsAt(k).skip /\ ~FactsAt(k).date /\ (FactsAt(k).bank \/ ~FactsAt(k).party)
\* n party lines, then the shared lines
EntryWithShared(n) ==
    /\ n < Len(lines)
    /\ ~FactsAt(1).skip /\ FactsAt(1).date
    /\ \A k \in 2..n : AdditionalPartyLine(k)
    /\ FactsAt(n + 1).bank
    /\ \A k \in (n + 1)..Len(lines) : SharedLine(k)
RECURSIVE SharedFrom(_)
SharedFrom(k) ==
    IF k > Len(lines) THEN <<>>
    ELSE (IF FactsAt(k).clean = "" THEN <<>> ELSE <<FactsAt(k).clean>>) \o SharedFrom(k + 1)

HeaderLine(k) == ~FactsAt(k).skip /\ (FactsAt(k).date \/ (~FactsAt(k).bank /\ FactsAt(k).party))
RECURSIVE OwnLines(_)
\* from line k on, up to the next header line, the lines the loop does not skip
OwnLines(k) ==
    IF k > Len(lines) \/ HeaderLine(k) THEN <<>>
    ELSE (IF FactsAt(k).skip THEN <<>> ELSE <<k>>) \o OwnLines(k + 1)
RECURSIVE Cleaned(_)
Cleaned(ks) ==
    IF ks = <<>> THEN <<>>
    ELSE (IF FactsAt(ks[1]).clean = "" THEN <<>> ELSE <<FactsAt(ks[1]).clean>>) \o Cleaned(Tail(ks))
NotBankLines(ks) == SelectSeq(ks, LAMBDA k : ~FactsAt(k).bank)

\* C26 as stated: the narration of an emitted transaction is made of its lines
\* that are neither a header nor a bank-account line, so it holds the text of
\* no bank-account line.
C26_NoBankAccountLine ==
    pc = "done" =>
        \A j \in 1..Len(transactions) :
            transactions[j].Narration = Join(Cleaned(NotBankLines(OwnLines(emittedFrom[j] + 1))), " ")

\* C26: the narration of an emitted transaction is made of all of its lines that
\* are not a header, noise lines left out and bank-account lines included, each
\* with its invoice reference stripped, joined by single spaces in input order.
C26_NarrationOfOwnLines ==
    pc = "done" =>
        \A j \in 1..Len(transactions) :
            transactions[j].Narration = Join(Cleaned(OwnLines(emittedFrom[j] + 1)), " ")

\* a transaction of a bank-account line and a cheque line with an invoice
\* reference, separated by a noise line
C26_Witness ==
    /\ pc = "done"
    /\ lines = <<"Apr 2 NIDHI STORE GEHLO 5361.00", "ICICI 192105002017 9141.00",
                 "SUB TOTAL 73494.00", "Chq.5677 Dt. 03-04-2025 Ag. DDG034269">>
    /\ Len(transactions) = 1
    /\ transactions[1].Narration = "ICICI 192105002017 9141.00 Chq.5677 Dt. 03-04-2025"

(* The lines that follow a discarded date-started suspense entry.           *)

DateStarted(k) == ~FactsAt(k).skip /\ FactsAt(k).date
SuspenseDateLine(k) == DateStarted(k) /\ isSuspense(tables.FirstLineOf[LineAt(k), year])
\* line k is not skipped and not date-started, and the date-started line last
\* met before it was discarded as a suspense entry
AfterSuspenseDate(k) ==
    /\ ~FactsAt(k).skip /\ ~FactsAt(k).date
    /\ \E s \in 1..(k - 1) :
          /\ SuspenseDateLine(s)
          /\ \A m \in (s + 1)..(k - 1) : ~DateStarted(m)

\* C27: the step taken on a bank-account, narration or party-shaped line that
\* follows a discarded date-started suspense entry, with no date-started line
\* in between, leaves the emitted transactions and the narration buffer as
\* they are and makes no transaction current.
C27_DroppedAfterSuspense ==
    [][(InLoop /\ AfterSuspenseDate(i)) =>
          /\ transactions' = transactions
          /\ narrationLines = <<>> /\ narrationLines' = <<>>
          /\ currentTx = <<>> /\ currentTx' = <<>>
          /\ opened' = opened]_vars

\* an ordinary entry, a suspense entry, then a bank-account line and a
\* party-shaped line: only the ordinary entry is emitted, with no narration
C27_Witness ==
    /\ pc = "done"
    /\ lines = <<"Apr 2 NIDHI STORE GEHLO 5361.00", "Dec 26 SUSPENSE A/C 1000.00",
                 "ICICI 192105002017 9141.00", "PANKAJ MEDICAL KANPUR 3780.00">>
    /\ AfterSuspenseDate(3) /\ AfterSuspenseDate(4)
    /\ Len(transactions) = 1
    /\ transactions[1].Narration = ""
    /\ opened = <<1>>

\* C5: the transactions that became current are, in input order, exactly the
\* emitted ones followed by the one still current; each is emitted once, when
\* the next date-started or party line arrives or at the end of the input.
C5_EmittedOnceInOrder ==
    /\ Len(emittedFrom) = Len(transactions)
    /\ \A j \in 1..(Len(opened) - 1) : opened[j] < opened[j + 1]
    /\ pc = "loop" => opened = emittedFrom \o (IF currentTx = <<>> THEN <<>> ELSE <<curFrom>>)
    /\ pc = "done" => opened = emittedFrom
    /\ \A j \in 1..Len(transactions) :
          transactions[j].PartyName = LET l == LineAt(emittedFrom[j]) IN
                IF tables.LineFacts[l].date THEN tables.FirstLineOf[l, year].PartyName
                ELSE tables.PartyLineOf[l, transactions[j].Date].PartyName

\* a finished call in which three transactions became current, two flushed by
\* the next header line and the last at the end of the input
C5_Witness ==
    /\ pc = "done"
    /\ opened = <<1, 2, 4>>
    /\ emittedFrom = <<1, 2, 4>>
    /\ Len(transactions) = 3
    /\ FactsAt(4).date

-----------------------------------------------------------------------------
(* The flush of one transaction taken alone: narration lines are gathered,  *)
(* joined by buildNarration and classified by detectPaymentMode.            *)

MaxNarrationLines == 2

NarrationVocab == {
    "RTGS-HDFCR5202504", "NEFT-BARBN5202504-VAIBHAV", "MMT/IMPS/5093/ALOK", "UPI/5458/UPI/ALOK@/PNB",
    "CLG/AXIS/000123", "INF/NET/0099", "TRANSFER/INFT/REF1", "Chq.5677 Dt. 03-04-2025",
    "FT-MESPOS SET 6100", "BY CASH -KANPUR", "neft-sbin0001", "ICICI 192105002017 75901.00",
    "TRF/MAA VAISHNO MEDICAL AND/001146/ICI/13.10.2025", "TRF/INTERNAL TRANSFER/REF123",
    "AB/RTGS-9/UPI" }

DetectInit ==
    /\ tables = <<>>
    /\ lines = <<>>
    /\ year = 0
    /\ i = 1
    /\ transactions = <<>>
    /\ currentTx = <<>>
    /\ narrationLines = <<>>
    /\ lastDate = ZeroTime
    /\ pc = "flush"
    /\ opened = <<>>
    /\ emittedFrom = <<>>
    /\ curFrom = 0
    /\ txNarration = "" /\ txPaymentMode = ""
    /\ ExtractIdle
    /\ ScoreIdle
    /\ MatchIdle
    /\ ServerIdle

\* narrationLines = append(narrationLines, cleanedLine)
AppendNarrationLine ==
    /\ pc = "flush"
    /\ txPaymentMode = ""
    /\ Len(narrationLines) < MaxNarrationLines
    /\ \E l \in NarrationVocab : narrationLines' = Append(narrationLines, l)
    /\ UNCHANGED <<tables, lines, year, i, transactions, currentTx, lastDate, pc,
                   opened, emittedFrom, curFrom, txNarration, txPaymentMode, extractVars,
                   scoreVars, matchVars, serverVars>>

\* currentTx.Narration = buildNarration(narrationLines)
\* currentTx.PaymentMode = detectPaymentMode(currentTx.Narration)
DetectMode ==
    /\ pc = "flush"
    /\ txPaymentMode = ""
    /\ txNarration' = buildNarration(narrationLines)
    /\ txPaymentMode' = detectPaymentMode(txNarration')
    /\ UNCHANGED <<tables, lines, year, i, transactions, currentTx, narrationLines, lastDate, pc,
                   opened, emittedFrom, curFrom, extractVars, scoreVars, matchVars, serverVars>>

DetectNext ==
    \/ AppendNarrationLine
    \/ DetectMode

DetectSpec == DetectInit /\ [][DetectNext]_vars

-----------------------------------------------------------------------------
(* Properties of detectPaymentMode                                          *)

\* the modes in their stated order of priority, each with its pattern
StatedOrder == <<
    [mode |-> "RTGS",   re |-> rtgsModePattern],
    [mode |-> "NEFT",   re |-> neftModePattern],
    [mode |-> "IMPS",   re |-> impsModePattern],
    [mode |-> "UPI",    re |-> upiModePattern],
    [mode |-> "CLG",    re |-> clgModePattern],
    [mode |-> "INF",    re |-> infModePattern],
    [mode |-> "CHEQUE", re |-> chqModePattern],
    [mode |-> "POS",    re |-> posModePattern],
    [mode |-> "CASH",   re |-> cashModePattern]>>
Hits(n) == {k \in 1..Len(StatedOrder) : MatchString(StatedOrder[k].re, n)}
Detected == txPaymentMode # ""

HasTrfMarker(n) ==
    \/ HasPrefix(n, "TRF/")
    \/ MatchString(bankAccountPattern, n) /\ Contains(n, " TRF/")

\* C7: a narration whose marker is TRF/ and that matches none of the other
\* modes' patterns is detected as TRF.
C7_TrfDetected ==
    (Detected /\ HasTrfMarker(txNarration) /\ Hits(txNarration) = {}) =>
        txPaymentMode = "TRF"

-----------------------------------------------------------------------------
(* package extractor: identifier types and patterns.                       *)

TypeUPIVPA        == "upi_vpa"
TypePhone         == "phone"
TypeAccountNumber == "account_number"
TypeIFSC          == "ifsc"
TypeIMPSName      == "imps_name"
TypeBankName      == "bank_name"
TypeNEFTName      == "neft_name"
TypeCashBankCode  == "cash_bank_code"
TypeCashLocation  == "cash_location"
TypeCashAgentCode == "cash_agent_code"
TypeFromAccount   == "from_account"
TypeFromName      == "from_name"

Identifier(type, value) == [Type |-> type, Value |-> value]

AlNum    == Letter \cup Digit
NotSlash == NCls({"/"})
UpperWs  == Cls(UpperAZ \cup Space)
UpiId    == Plus(Cls(AlNum \cup {".", "_", "@", "-"}))
ImpsRef  == Cat(<<Lit("MMT/IMPS/"), D(12), Lit("/")>>)
\* [A-Z][A-Z\s]* and [A-Z][A-Z\s]+
UpperName0 == Cat(<<Cls(UpperAZ), Star(UpperWs)>>)
UpperName1 == Cat(<<Cls(UpperAZ), Plus(UpperWs)>>)

\* ([a-zA-Z0-9][a-zA-Z0-9._-]{1,255}@[a-zA-Z]{1,64})
upiPattern ==
    Re(Cap(1, Cat(<<Cls(AlNum), Rep(Cls(AlNum \cup {".", "_", "-"}), 1, 255), Lit("@"),
                    Rep(Cls(Letter), 1, 64)>>)))
\* UPI/\d+/UPI/([A-Za-z0-9._@-]+)/
upiNarrationPattern ==
    Re(Cat(<<Lit("UPI/"), Plus(Cls(Digit)), Lit("/UPI/"), Cap(1, UpiId), Lit("/")>>))
\* UPI/[^/]+/([A-Za-z0-9._-]+)/PAYMENT FR/
upiNarrationPattern2 ==
    Re(Cat(<<Lit("UPI/"), Plus(NotSlash), Lit("/"),
             Cap(1, Plus(Cls(AlNum \cup {".", "_", "-"}))), Lit("/PAYMENT FR/")>>))
\* UPI/\d+/[^/]+/([A-Za-z0-9._@-]+)/
upiNarrationPattern3 ==
    Re(Cat(<<Lit("UPI/"), Plus(Cls(Digit)), Lit("/"), Plus(NotSlash), Lit("/"), Cap(1, UpiId),
             Lit("/")>>))
\* UPI/[^/]+/([A-Za-z0-9._@-]+)/[^/]+/[^/]+/\d+/
upiNarrationPattern4 ==
    Re(Cat(<<Lit("UPI/"), Plus(NotSlash), Lit("/"), Cap(1, UpiId), Lit("/"), Plus(NotSlash),
             Lit("/"), Plus(NotSlash), Lit("/"), Plus(Cls(Digit)), Lit("/")>>))
\* UPI/([A-Za-z0-9._@-]+)/[^/]+/[^/]+/\d+/[A-Za-z0-9]+$
upiNarrationPattern5 ==
    Re(Cat(<<Lit("UPI/"), Cap(1, UpiId), Lit("/"), Plus(NotSlash), Lit("/"), Plus(NotSlash),
             Lit("/"), Plus(Cls(Digit)), Lit("/"), Plus(Cls(AlNum)), Eol>>))
\* (?:^|[^\d])([6-9]\d{9})(?:[^\d]|$)
phonePattern ==
    Re(Cat(<<Alt(<<Bol, NCls(Digit)>>), Cap(1, Cat(<<Cls({"6", "7", "8", "9"}), D(9)>>)),
             Alt(<<NCls(Digit), Eol>>)>>))
\* -(\d{9,18})(?:-|$)
accountPattern ==
    Re(Cat(<<Lit("-"), Cap(1, Rep(Cls(Digit), 9, 18)), Alt(<<Lit("-"), Eol>>)>>))
\* (?:A/C|ACCT?|Account)\s*(?:No\.?|#)?\s*(\d{9,18})
accountPatternAlt ==
    Re(Cat(<<Alt(<<Lit("A/C"), Cat(<<Lit("ACC"), Opt(Lit("T"))>>), Lit("Account")>>), WS0,
             Opt(Alt(<<Cat(<<Lit("No"), Opt(Lit("."))>>), Lit("#")>>)), WS0,
             Cap(1, Rep(Cls(Digit), 9, 18))>>))
\* [A-Z]{4}0[A-Z0-9]{6}
ifscPattern ==
    Re(Cat(<<Rep(Cls(UpperAZ), 4, 4), Lit("0"), Rep(Cls(UpperAZ \cup Digit), 6, 6)>>))

\* MMT/IMPS/\d{12}/OK/([^/]+)/(.+)
impsOKPattern ==
    Re(Cat(<<ImpsRef, Lit("OK/"), Cap(1, Plus(NotSlash)), Lit("/"), Cap(2, Plus(Dot))>>))
\* MMT/IMPS/\d{12}/([A-Z][A-Z\s]*)/([A-Z][A-Z\s]*)/(.+)
impsTwoNamesPattern ==
    Re(Cat(<<ImpsRef, Cap(1, UpperName0), Lit("/"), Cap(2, UpperName0), Lit("/"),
             Cap(3, Plus(Dot))>>))
\* MMT/IMPS/\d{12}/\d+\s*/([^/]+)/(.+)
impsSecondaryRefPattern ==
    Re(Cat(<<ImpsRef, Plus(Cls(Digit)), WS0, Lit("/"), Cap(1, Plus(NotSlash)), Lit("/"),
             Cap(2, Plus(Dot))>>))
\* MMT/IMPS/\d{12}/IMPS P2A\s+([^/]+?)\s*/([^/]+)/(.+)
impsP2APattern ==
    Re(Cat(<<ImpsRef, Lit("IMPS P2A"), WS1, Cap(1, Lazy(NotSlash, 1, Many)), WS0, Lit("/"),
             Cap(2, Plus(NotSlash)), Lit("/"), Cap(3, Plus(Dot))>>))
\* MMT/IMPS/\d{12}/REQPAY/([^/]+?)\s*/(.+)
impsREQPAYPattern ==
    Re(Cat(<<ImpsRef, Lit("REQPAY/"), Cap(1, Lazy(NotSlash, 1, Many)), WS0, Lit("/"),
             Cap(2, Plus(Dot))>>))
\* MMT/IMPS/\d{12}/([A-Z][A-Z\s]*)/([A-Z][A-Z\s]+)$
impsSimplePattern ==
    Re(Cat(<<ImpsRef, Cap(1, UpperName0), Lit("/"), Cap(2, UpperName1), Eol>>))

\* NEFT-[A-Z]{4,5}[A-Z0-9]*\d+-([^-]+)-
neftNamePattern ==
    Re(Cat(<<Lit("NEFT-"), Rep(Cls(UpperAZ), 4, 5), Star(Cls(UpperAZ \cup Digit)),
             Plus(Cls(Digit)), Lit("-"), Cap(1, Plus(NCls({"-"}))), Lit("-")>>))
\* INF/INFT/\d+/[^/]+\s*/([^/]+)
inftNamePattern ==
    Re(Cat(<<Lit("INF/INFT/"), Plus(Cls(Digit)), Lit("/"), Plus(NotSlash), WS0, Lit("/"),
             Cap(1, Plus(NotSlash))>>))
\* INF/INFT/\d+/([A-Z][A-Z\s]+)$
inftSingleNamePattern ==
    Re(Cat(<<Lit("INF/INFT/"), Plus(Cls(Digit)), Lit("/"), Cap(1, UpperName1), Eol>>))
\* BIL/INFT/[A-Z0-9]+/\s*([A-Z][A-Z\s]+)
bilInftNamePattern ==
    Re(Cat(<<Lit("BIL/INFT/"), Plus(Cls(UpperAZ \cup Digit)), Lit("/"), WS0,
             Cap(1, UpperName1)>>))
\* NEFT_IN:[^/]*//[A-Z0-9]+/([A-Z][A-Z\s]+?)(?:\s+AG\.|\s*$)
neftInNamePattern ==
    Re(Cat(<<Lit("NEFT_IN:"), Star(NotSlash), Lit("//"), Plus(Cls(UpperAZ \cup Digit)), Lit("/"),
             Cap(1, Cat(<<Cls(UpperAZ), Lazy(UpperWs, 1, Many)>>)),
             Alt(<<Cat(<<WS1, Lit("AG.")>>), Cat(<<WS0, Eol>>)>>)>>))
\* BY\s+CASH\s+-(\d{5,8})
cashBankCodePattern ==
    Re(Cat(<<Lit("BY"), WS1, Lit("CASH"), WS1, Lit("-"), Cap(1, Rep(Cls(Digit), 5, 8))>>))
\* BY\s+CASH\s+-\d{5,8}\s+([A-Z][A-Za-z]*(?:\s+\([A-Z]{2}\))?)
cashLocationPattern ==
    Re(Cat(<<Lit("BY"), WS1, Lit("CASH"), WS1, Lit("-"), Rep(Cls(Digit), 5, 8), WS1,
             Cap(1, Cat(<<Cls(UpperAZ), Star(Cls(Letter)),
                          Opt(Cat(<<WS1, Lit("("), Rep(Cls(UpperAZ), 2, 2), Lit(")")>>))>>))>>))
\* (?:AG\.?|AGT\.?|AGENCY)\s*\*?([A-Z]{2,4}\d{6,10})
cashAgentCodePattern ==
    Re(Cat(<<Alt(<<Cat(<<Lit("AG"), Opt(Lit("."))>>), Cat(<<Lit("AGT"), Opt(Lit("."))>>),
                   Lit("AGENCY")>>), WS0, Opt(Lit("*")),
             Cap(1, Cat(<<Rep(Cls(UpperAZ), 2, 4), Rep(Cls(Digit), 6, 10)>>))>>))
\* FROM:([X]{4}\d{4}):([A-Z][A-Z\s]+)
fromPattern ==
    Re(Cat(<<Lit("FROM:"), Cap(1, Cat(<<Rep(Lit("X"), 4, 4), D(4)>>)), Lit(":"),
             Cap(2, UpperName1)>>))

\* the map from truncated to full bank names, as its key/value pairs
bankNormalization == {
    <<"UNION BANKOF I", "UNION BANK OF INDIA">>, <<"STATE BANK O", "STATE BANK OF INDIA">>,
    <<"STATE BANK OF I", "STATE BANK OF INDIA">>, <<"BANK OF BARO", "BANK OF BARODA">>,
    <<"PUNJAB NATIO", "PUNJAB NATIONAL BANK">>, <<"CANARA BANK", "CANARA BANK">>,
    <<"HDFC BANK", "HDFC BANK">>, <<"ICICI BANK", "ICICI BANK">>, <<"AXIS BANK", "AXIS BANK">>,
    <<"KOTAK MAHIND", "KOTAK MAHINDRA BANK">>, <<"INDUSIND BAN", "INDUSIND BANK">>,
    <<"YES BANK", "YES BANK">>, <<"IDBI BANK", "IDBI BANK">>,
    <<"CENTRAL BANK", "CENTRAL BANK OF INDIA">>, <<"INDIAN BANK", "INDIAN BANK">>,
    <<"INDIAN OVERS", "INDIAN OVERSEAS BANK">>, <<"UCO BANK", "UCO BANK">>,
    <<"BANK OF INDI", "BANK OF INDIA">>, <<"SYNDICATE BA", "SYNDICATE BANK">>,
    <<"ALLAHABAD BA", "ALLAHABAD BANK">>, <<"CORPORATION", "CORPORATION BANK">>,
    <<"ORIENTAL BAN", "ORIENTAL BANK OF COMMERCE">>, <<"UNITED BANK", "UNITED BANK OF INDIA">>,
    <<"DENA BANK", "DENA BANK">>, <<"VIJAYA BANK", "VIJAYA BANK">>,
    <<"FEDERAL BANK", "FEDERAL BANK">>, <<"SOUTH INDIAN", "SOUTH INDIAN BANK">>,
    <<"KARNATAKA BA", "KARNATAKA BANK">>, <<"BANDHAN BANK", "BANDHAN BANK">>,
    <<"RBL BANK", "RBL BANK">>, <<"IDFC FIRST B", "IDFC FIRST BANK">>,
    <<"AU SMALL FIN", "AU SMALL FINANCE BANK">>, <<"EQUITAS SMAL", "EQUITAS SMALL FINANCE BANK">>,
    <<"UJJIVAN SMAL", "UJJIVAN SMALL FINANCE BANK">>, <<"PAYTM PAYMEN", "PAYTM PAYMENTS BANK">>,
    <<"AIRTEL PAYME", "AIRTEL PAYMENTS BANK">>, <<"FINO PAYMENT", "FINO PAYMENTS BANK">>,
    <<"JIOPAYMENTSB", "JIO PAYMENTS BANK">>, <<"PUNJAB AND SIND", "PUNJAB AND SIND BANK">>,
    <<"PUNJAB AND S", "PUNJAB AND SIND BANK">> }

\* the values normalizeBank can return for raw.  The exact match is a map
\* lookup; the prefix match ranges over the map, whose iteration order Go
\* leaves unspecified and randomizes, so the first entry that matches can be
\* any entry that matches.
normalizeBank(raw) ==
    LET r == TrimSpace(raw)
        exact == {e \in bankNormalization : e[1] = r}
        prefix == {e \in bankNormalization : HasPrefix(e[1], r) \/ HasPrefix(r, e[1])}
    IN IF exact # {} THEN {e[2] : e \in exact}
       ELSE IF prefix # {} THEN {e[2] : e \in prefix}
       ELSE {r}

statusCodes == {"OK", "NA", "NULL", "FAIL", "ERROR", "PENDING", "SUCCESS"}

isValidExtractedName(name) ==
    LET n == TrimSpace(name)
    IN /\ Len(n) >= 2
       /\ n \notin statusCodes
       /\ ~HasSuffix(ToUpper(n), "PAYMENT")
       /\ \E k \in 1..Len(n) : At(n, k) \in Letter

\* the reqpay layout tried ahead of the two-name layout
extractIMPSDataReqpayFirst(narration) ==
    LET upperNarration == ToUpper(narration)
        names(raws) == SelectSeq([k \in 1..Len(raws) |-> TrimSpace(raws[k])], isValidExtractedName)
        result(ns, rawBank) == {[names |-> ns, bank |-> b] : b \in normalizeBank(rawBank)}
        g(m, n) == Group(upperNarration, m, n)
        ok == FindStringSubmatch(impsOKPattern, upperNarration)
        two == FindStringSubmatch(impsTwoNamesPattern, upperNarration)
        sec == FindStringSubmatch(impsSecondaryRefPattern, upperNarration)
        p2a == FindStringSubmatch(impsP2APattern, upperNarration)
        req == FindStringSubmatch(impsREQPAYPattern, upperNarration)
        simple == FindStringSubmatch(impsSimplePattern, upperNarration)
    IN IF ok.ok THEN result(names(<<g(ok, 1)>>), g(ok, 2))
       ELSE IF req.ok THEN result(names(<<g(req, 1)>>), g(req, 2))
       ELSE IF two.ok
            THEN result(SelectSeq(names(<<g(two, 1), g(two, 2)>>), LAMBDA n : n # "OK"), g(two, 3))
       ELSE IF sec.ok THEN result(names(<<g(sec, 1)>>), g(sec, 2))
       ELSE IF p2a.ok THEN result(names(<<g(p2a, 1), g(p2a, 2)>>), g(p2a, 3))
       ELSE IF simple.ok THEN result(names(<<g(simple, 1)>>), g(simple, 2))
       ELSE {[names |-> <<>>, bank |-> ""]}

\* the (names, bank) pairs extractIMPSData can return: one per value that
\* normalizeBank can return for the bank field of the first layout that matches
extractIMPSData(narration) ==
    LET upperNarration == ToUpper(narration)
        names(raws) == SelectSeq([k \in 1..Len(raws) |-> TrimSpace(raws[k])], isValidExtractedName)
        result(ns, rawBank) == {[names |-> ns, bank |-> b] : b \in normalizeBank(rawBank)}
        g(m, n) == Group(upperNarration, m, n)
        ok == FindStringSubmatch(impsOKPattern, upperNarration)
        two == FindStringSubmatch(impsTwoNamesPattern, upperNarration)
        sec == FindStringSubmatch(impsSecondaryRefPattern, upperNarration)
        p2a == FindStringSubmatch(impsP2APattern, upperNarration)
        req == FindStringSubmatch(impsREQPAYPattern, upperNarration)
        simple == FindStringSubmatch(impsSimplePattern, upperNarration)
    IN IF ok.ok THEN result(names(<<g(ok, 1)>>), g(ok, 2))
       ELSE IF two.ok
            THEN result(SelectSeq(names(<<g(two, 1), g(two, 2)>>), LAMBDA n : n # "OK"), g(two, 3))
       ELSE IF sec.ok THEN result(names(<<g(sec, 1)>>), g(sec, 2))
       ELSE IF p2a.ok THEN result(names(<<g(p2a, 1), g(p2a, 2)>>), g(p2a, 3))
       ELSE IF req.ok THEN result(names(<<g(req, 1)>>), g(req, 2))
       ELSE IF simple.ok THEN result(names(<<g(simple, 1)>>), g(simple, 2))
       ELSE {[names |-> <<>>, bank |-> ""]}

\* the first of the five name patterns whose submatch is a valid name
extractNEFTName(narration) ==
    LET upperNarration == ToUpper(narration)
        try(re) == LET m == FindStringSubmatch(re, upperNarration)
                   IN IF m.ok THEN TrimSpace(Group(upperNarration, m, 1)) ELSE ""
        res == <<neftNamePattern, inftNamePattern, inftSingleNamePattern, bilInftNamePattern,
                 neftInNamePattern>>
        hits == {k \in 1..Len(res) : isValidExtractedName(try(res[k]))}
    IN IF hits = {} THEN "" ELSE try(res[CHOOSE k \in hits : \A j \in hits : k <= j])

-----------------------------------------------------------------------------
(* extractor.Extract as a state machine: one action per block of the        *)
(* function, in the order of the source.                                    *)

MaxCalls == 2

ExtractVocab == {
    "UPI/545843195657/UPI/ALOK7860855471@YBL/PNB",
    "UPI/MR M/SHRIVAS2/PAYMENT FR/BANK OF BA/4642/YBLE6",
    "UPI/1121/TULSHI MED/RKROHIT459/UTTAR P/HDF0C8DB97",
    "NEFT-BARBN5202504-VAIBHAV LAXMI--37100200000337",
    "MMT/IMPS/510615959587/OK/RAM KUMAR/HDFC BANK",
    "MMT/IMPS/510615959587/RAM KUMAR/SHYAM LAL/PUNJAB",
    "MMT/IMPS/510615959587/9936 /NEWVI/STATE BANK OF I",
    "MMT/IMPS/510615959587/IMPS P2A RAM /SHYAM/BANK OF",
    "MMT/IMPS/510615959587/REQPAY/NEWVI9936 /STATE BANK OF I",
    "MMT/IMPS/510615959587/REQPAY/RAM KUMAR /HDFC BANK",
    "MMT/IMPS/510615959587/RAM KUMAR/HDFC BANK",
    "mmt/imps/510615959587/ok/ram kumar/indian",
    "BY CASH -733300 TIRWA (UP) Ag. DDG000201",
    "From:XXXX8723:ASHWANI KUMAR Ag. *DDG029160,",
    "INF/INFT/039939724801/DURGAKNP /S S PHARMA",
    "A/C 123456789012 SBIN0001234 ab@ybl AB@YBL" }

ExtractInit ==
    /\ tables = <<>>
    /\ lines = <<>>
    /\ year = 0
    /\ i = 1
    /\ transactions = <<>>
    /\ currentTx = <<>>
    /\ narrationLines = <<>>
    /\ lastDate = ZeroTime
    /\ pc = "idle"
    /\ opened = <<>>
    /\ emittedFrom = <<>>
    /\ curFrom = 0
    /\ txNarration = "" /\ txPaymentMode = ""
    /\ exNarration \in ExtractVocab
    /\ exUpper = ToUpper(exNarration)
    /\ identifiers = <<>>
    /\ seen = {}
    /\ exPc = "upi"
    /\ results = <<>>
    /\ ScoreIdle
    /\ MatchIdle
    /\ ServerIdle

\* the identifier added without a look at the keys seen
AddUnchecked(acc, type, value) ==
    [identifiers |-> Append(acc.identifiers, Identifier(type, value)),
     seen |-> acc.seen \cup {type \o ":" \o value}]

\* the identifier added unless its key was seen before
Add(acc, type, value) ==
    LET key == type \o ":" \o value
    IN IF key \in acc.seen THEN acc
       ELSE [identifiers |-> Append(acc.identifiers, Identifier(type, value)),
             seen |-> acc.seen \cup {key}]
RECURSIVE AddAll(_, _, _)
AddAll(acc, type, values) ==
    IF values = <<>> THEN acc ELSE AddAll(Add(acc, type, values[1]), type, Tail(values))

\* submatch n of every match of FindAllStringSubmatch(s, -1)
Submatches(re, s, n) ==
    LET ms == FindAll(re, s) IN [k \in 1..Len(ms) |-> Group(s, ms[k], n)]
Current == [identifiers |-> identifiers, seen |-> seen]

\* one block of Extract: from here to next, leaving acc
Block(here, next, acc) ==
    /\ exPc = here
    /\ identifiers' = acc.identifiers
    /\ seen' = acc.seen
    /\ exPc' = next
    /\ UNCHANGED <<parserVars, detectVars, scoreVars, matchVars, serverVars, exNarration, exUpper, results>>

ExtractUPI ==
    LET vs == Submatches(upiPattern, exNarration, 1)
    IN Block("upi", "upiNarration", AddAll(Current, TypeUPIVPA, [k \in 1..Len(vs) |-> ToUpper(vs[k])]))
ExtractUPINarration ==
    Block("upiNarration", "upiNarration2",
          AddAll(Current, TypeUPIVPA, Submatches(upiNarrationPattern, exUpper, 1)))
ExtractUPINarration2 ==
    Block("upiNarration2", "upiNarration3",
          AddAll(Current, TypeUPIVPA, Submatches(upiNarrationPattern2, exUpper, 1)))
ExtractUPINarration3 ==
    Block("upiNarration3", "upiNarration4",
          AddAll(Current, TypeUPIVPA, Submatches(upiNarrationPattern3, exUpper, 1)))
ExtractUPINarration4 ==
    Block("upiNarration4", "upiNarration5",
          AddAll(Current, TypeUPIVPA, Submatches(upiNarrationPattern4, exUpper, 1)))
ExtractUPINarration5 ==
    Block("upiNarration5", "phone",
          AddAll(Current, TypeUPIVPA, Submatches(upiNarrationPattern5, exUpper, 1)))
ExtractPhone ==
    Block("phone", "account", AddAll(Current, TypePhone, Submatches(phonePattern, exUpper, 1)))
ExtractAccount ==
    Block("account", "accountAlt",
          AddAll(Current, TypeAccountNumber, Submatches(accountPattern, exUpper, 1)))
ExtractAccountAlt ==
    Block("accountAlt", "ifsc",
          AddAll(Current, TypeAccountNumber, Submatches(accountPatternAlt, exUpper, 1)))
\* ifscPattern.FindAllString: the whole matches
ExtractIFSC ==
    LET ms == FindAll(ifscPattern, exUpper)
    IN Block("ifsc", "imps",
             AddAll(Current, TypeIFSC, [k \in 1..Len(ms) |-> SubSeq(exUpper, ms[k].b, ms[k].e - 1)]))
\* names, bank := extractIMPSData(narration)
ExtractIMPS ==
    /\ exPc = "imps"
    /\ \E r \in extractIMPSData(exNarration) :
          LET named == AddAll(Current, TypeIMPSName, r.names)
          IN Block("imps", "neft", IF r.bank # "" THEN Add(named, TypeBankName, r.bank) ELSE named)
ExtractNEFT ==
    LET neftName == extractNEFTName(exNarration)
    IN Block("neft", "cashCode",
             IF neftName # "" THEN Add(Current, TypeNEFTName, neftName) ELSE Current)
ExtractCashBankCode ==
    LET m == FindStringSubmatch(cashBankCodePattern, exUpper)
    IN Block("cashCode", "cashLocation",
             IF m.ok THEN Add(Current, TypeCashBankCode, Group(exUpper, m, 1)) ELSE Current)
ExtractCashLocation ==
    LET m == FindStringSubmatch(cashLocationPattern, exUpper)
        value == TrimSpace(Group(exUpper, m, 1))
    IN Block("cashLocation", "cashAgent",
             IF m.ok /\ value # "" THEN Add(Current, TypeCashLocation, value) ELSE Current)
ExtractCashAgentCode ==
    LET m == FindStringSubmatch(cashAgentCodePattern, exUpper)
    IN Block("cashAgent", "from",
             IF m.ok THEN Add(Current, TypeCashAgentCode, Group(exUpper, m, 1)) ELSE Current)
\* the From: field: the masked account, then the sender name without a
\* trailing " AG"
ExtractFrom ==
    LET m == FindStringSubmatch(fromPattern, exUpper)
        trimmed == TrimSpace(Group(exUpper, m, 2))
        senderName == TrimSpace(IF HasSuffix(trimmed, " AG")
                                THEN SubSeq(trimmed, 1, Len(trimmed) - 3) ELSE trimmed)
        account == Add(Current, TypeFromAccount, Group(exUpper, m, 1))
    IN Block("from", "return",
             IF ~m.ok THEN Current
             ELSE IF isValidExtractedName(senderName) THEN Add(account, TypeFromName, senderName)
             ELSE account)

\* return identifiers; the caller may call Extract on the narration again
ExtractReturn ==
    /\ exPc = "return"
    /\ results' = Append(results, identifiers)
    /\ IF Len(results') < MaxCalls
       THEN identifiers' = <<>> /\ seen' = {} /\ exPc' = "upi"
       ELSE exPc' = "done" /\ UNCHANGED <<identifiers, seen>>
    /\ UNCHANGED <<parserVars, detectVars, scoreVars, matchVars, serverVars, exNarration, exUpper>>

ExtractNext ==
    \/ ExtractUPI
    \/ ExtractUPINarration
    \/ ExtractUPINarration2
    \/ ExtractUPINarration3
    \/ ExtractUPINarration4
    \/ ExtractUPINarration5
    \/ ExtractPhone
    \/ ExtractAccount
    \/ ExtractAccountAlt
    \/ ExtractIFSC
    \/ ExtractIMPS
    \/ ExtractNEFT
    \/ ExtractCashBankCode
    \/ ExtractCashLocation
    \/ ExtractCashAgentCode
    \/ ExtractFrom
    \/ ExtractReturn

ExtractSpec == ExtractInit /\ [][ExtractNext]_vars

-----------------------------------------------------------------------------
(* Properties of extractor.Extract                                          *)

NoDuplicates(ids) ==
    \A a, b \in 1..Len(ids) :
        (ids[a].Type = ids[b].Type /\ ids[a].Value = ids[b].Value) => a = b
ValuesOf(ids, type) == {ids[k].Value : k \in {j \in 1..Len(ids) : ids[j].Type = type}}

\* C8: neither the list a call is building nor any list a call returned holds
\* two identifiers of equal type and value.
C8_NoDuplicateIdentifiers ==
    /\ NoDuplicates(identifiers)
    /\ \A c \in 1..Len(results) : NoDuplicates(results[c])

\* a returned list with one upi_vpa although the generic pattern and two
\* narration-layout patterns each found that value
C8_Witness ==
    /\ exPc = "done"
    /\ Submatches(upiPattern, exNarration, 1) = <<"ALOK7860855471@YBL">>
    /\ Submatches(upiNarrationPattern, exUpper, 1) = <<"ALOK7860855471@YBL">>
    /\ Submatches(upiNarrationPattern3, exUpper, 1) = <<"ALOK7860855471@YBL">>
    /\ results[1] = <<Identifier(TypeUPIVPA, "ALOK7860855471@YBL"),
                      Identifier(TypePhone, "7860855471")>>

\* C9: all the calls made on the narration returned the same list.
C9_SameResultEachCall ==
    \A a, b \in 1..Len(results) : results[a] = results[b]

\* the six layouts in their stated order: pattern, name submatches, bank submatch
StatedLayouts == <<
    [re |-> impsOKPattern,           names |-> <<1>>,    bank |-> 2],
    [re |-> impsTwoNamesPattern,     names |-> <<1, 2>>, bank |-> 3],
    [re |-> impsSecondaryRefPattern, names |-> <<1>>,    bank |-> 2],
    [re |-> impsP2APattern,          names |-> <<1, 2>>, bank |-> 3],
    [re |-> impsREQPAYPattern,       names |-> <<1>>,    bank |-> 2],
    [re |-> impsSimplePattern,       names |-> <<1>>,    bank |-> 2]>>
LayoutHits(u) == {k \in 1..Len(StatedLayouts) : MatchString(StatedLayouts[k].re, u)}
AfterIMPS == exPc \in {"neft", "cashCode", "cashLocation", "cashAgent", "from", "return", "done"}

\* C10: once the IMPS block has run, the imps_name and bank_name identifiers
\* are those of the first layout, in the order OK-status, two-name,
\* secondary-reference, P2A, REQPAY, simple, whose pattern matches; there are
\* none when no layout matches.
C10_FirstLayoutOnly ==
    AfterIMPS =>
        LET hits == LayoutHits(exUpper)
        IN IF hits = {}
           THEN ValuesOf(identifiers, TypeIMPSName) = {} /\ ValuesOf(identifiers, TypeBankName) = {}
           ELSE LET first == StatedLayouts[CHOOSE k \in hits : \A j \in hits : k <= j]
                    m == FindStringSubmatch(first.re, exUpper)
                    found == {TrimSpace(Group(exUpper, m, first.names[g])) :
                                 g \in 1..Len(first.names)}
                IN /\ ValuesOf(identifiers, TypeIMPSName) =
                          {n \in found : isValidExtractedName(n)}
                   /\ ValuesOf(identifiers, TypeBankName) \subseteq
                          normalizeBank(Group(exUpper, m, first.bank))
                   /\ Cardinality(ValuesOf(identifiers, TypeBankName)) = 1

\* a narration that the two-name and the REQPAY layouts both match, read by the
\* two-name layout
C10_Witness ==
    /\ exPc = "neft"
    /\ exNarration = "MMT/IMPS/510615959587/REQPAY/RAM KUMAR /HDFC BANK"
    /\ LayoutHits(exUpper) = {2, 5}
    /\ identifiers = <<Identifier(TypeIMPSName, "REQPAY"), Identifier(TypeIMPSName, "RAM KUMAR"),
                       Identifier(TypeBankName, "HDFC BANK")>>

-----------------------------------------------------------------------------
(* Package matcher.  A float64 confidence is held as a whole number of      *)
(* 1/Scale points, so that the sums and products of calculateConfidence     *)
(* are exact for up to four distinct identifier types; divisions round      *)
(* down.                                                                    *)

Scale == 64000
Points(n) == n * Scale

\* Confidence weights for different identifier types, in hundredths
UPIVPAWeight == 95
PhoneWeight == 85
AccountNumberWeight == 80
IMPSNameWeight == 50
NEFTNameWeight == 50
BankNameWeight == 20
UnknownWeight == 50

MatchedIdentifier(type, value) == [Type |-> type, Value |-> value]

\* math.Min
Min(a, b) == IF a < b THEN a ELSE b

\* the switch on match.Type: weight = <Type>Weight * 100
WeightOf(type) ==
    CASE type = TypeUPIVPA -> UPIVPAWeight
      [] type = TypePhone -> PhoneWeight
      [] type = TypeAccountNumber -> AccountNumberWeight
      [] type = TypeIMPSName -> IMPSNameWeight
      [] type = TypeNEFTName -> NEFTNameWeight
      [] type = TypeBankName -> BankNameWeight
      [] OTHER -> UnknownWeight

\* Cumulative scoring: the first weight as it is, each further one adds
\* remaining * (weight / 100) * 0.5
Cumulate(confidence, weight) ==
    IF confidence = 0 THEN Points(weight)
    ELSE confidence + ((Points(100) - confidence) * weight) \div 200

\* the loop of calculateConfidence from matches[k] on
RECURSIVE ScoreFrom(_, _, _, _)
ScoreFrom(ms, k, confidence, matchTypes) ==
    IF k > Len(ms) THEN confidence
    ELSE IF ms[k].Type \in matchTypes THEN ScoreFrom(ms, k + 1, confidence, matchTypes)
    ELSE ScoreFrom(ms, k + 1, Cumulate(confidence, WeightOf(ms[k].Type)),
                   matchTypes \cup {ms[k].Type})

\* every distinct type replaces the confidence by its own weight
RECURSIVE LastWinsFrom(_, _, _, _)
LastWinsFrom(ms, k, confidence, matchTypes) ==
    IF k > Len(ms) THEN confidence
    ELSE IF ms[k].Type \in matchTypes THEN LastWinsFrom(ms, k + 1, confidence, matchTypes)
    ELSE LastWinsFrom(ms, k + 1, Points(WeightOf(ms[k].Type)), matchTypes \cup {ms[k].Type})
calculateConfidenceLastWins(ms) ==
    IF Len(ms) = 0 THEN 0 ELSE Min(LastWinsFrom(ms, 1, 0, {}), Points(100))

\* every match counted, whether or not its type was counted before
RECURSIVE EveryMatchFrom(_, _, _)
EveryMatchFrom(ms, k, confidence) ==
    IF k > Len(ms) THEN confidence
    ELSE EveryMatchFrom(ms, k + 1, Cumulate(confidence, WeightOf(ms[k].Type)))
calculateConfidenceEveryMatch(ms) ==
    IF Len(ms) = 0 THEN 0 ELSE Min(EveryMatchFrom(ms, 1, 0), Points(100))

calculateConfidence(ms) ==
    IF Len(ms) = 0 THEN 0 ELSE Min(ScoreFrom(ms, 1, 0, {}), Points(100))

(* calculateConfidence taken alone: called once on a list of matched        *)
(* identifiers.                                                             *)

MaxMatched == 3

MatchedVocab == {
    MatchedIdentifier(TypeUPIVPA, "AB@YBL"),
    MatchedIdentifier(TypePhone, "9876543210"),
    MatchedIdentifier(TypeAccountNumber, "123456789012"),
    MatchedIdentifier(TypeIMPSName, "RAM KUMAR"),
    MatchedIdentifier(TypeIMPSName, "SHYAM LAL"),
    MatchedIdentifier(TypeNEFTName, "VAIBHAV LAXMI"),
    MatchedIdentifier(TypeBankName, "HDFC BANK"),
    MatchedIdentifier(TypeIFSC, "SBIN0001234") }

ConfidenceInit ==
    /\ tables = <<>>
    /\ lines = <<>>
    /\ year = 0
    /\ i = 1
    /\ transactions = <<>>
    /\ currentTx = <<>>
    /\ narrationLines = <<>>
    /\ lastDate = ZeroTime
    /\ pc = "idle"
    /\ opened = <<>>
    /\ emittedFrom = <<>>
    /\ curFrom = 0
    /\ txNarration = "" /\ txPaymentMode = ""
    /\ ExtractIdle
    /\ matchedOn \in UNION {[1..n -> MatchedVocab] : n \in 0..MaxMatched}
    /\ calcReturn = <<>>
    /\ MatchIdle
    /\ ServerIdle

\* result.Confidence = calculateConfidence(result.MatchedOn)
CalculateConfidence ==
    /\ calcReturn = <<>>
    /\ calcReturn' = <<calculateConfidence(matchedOn)>>
    /\ UNCHANGED <<parserVars, detectVars, extractVars, matchVars, serverVars, matchedOn>>

ConfidenceNext == CalculateConfidence

ConfidenceSpec == ConfidenceInit /\ [][ConfidenceNext]_vars

-----------------------------------------------------------------------------
(* Properties of calculateConfidence                                        *)

Returned == calcReturn # <<>>
TypesOf(ms) == {ms[k].Type : k \in 1..Len(ms)}

Reorderings(ms) ==
    {[k \in 1..Len(ms) |-> ms[p[k]]] : p \in Permutations(1..Len(ms))}

\* C15: the base confidence of a candidate depends only on the set of
\* distinct identifier types matched, not on the order in which the matches
\* are processed: every reordering of the list gives the confidence returned.
C15_OrderIndependent ==
    Returned => \A other \in Reorderings(matchedOn) :
                    calculateConfidence(other) = calcReturn[1]

\* the list of ms without the matches whose type an earlier match has
RECURSIVE OncePerType(_, _)
OncePerType(ms, types) ==
    IF ms = <<>> THEN <<>>
    ELSE IF Head(ms).Type \in types THEN OncePerType(Tail(ms), types)
    ELSE <<Head(ms)>> \o OncePerType(Tail(ms), types \cup {Head(ms).Type})

\* C16: several matched values of one identifier type give the same base
\* confidence as a single value of that type: the confidence returned is the
\* one of the list that keeps only the first match of every type.
C16_EachTypeOnce ==
    Returned => calcReturn[1] = calculateConfidence(OncePerType(matchedOn, {}))

\* two different IMPS names were matched and count as one
C16_Witness ==
    /\ Returned
    /\ Len(matchedOn) = 2
    /\ matchedOn[1].Type = TypeIMPSName /\ matchedOn[2].Type = TypeIMPSName
    /\ matchedOn[1].Value # matchedOn[2].Value
    /\ calcReturn[1] = Points(IMPSNameWeight)

-----------------------------------------------------------------------------
(* The party store behind sqlc.Queries, as far as Match reads it.  A party  *)
(* row is (id, name); the transactions of party id are numbered from 1 to   *)
(* txCount[id], a later one on a later day.  txCount is empty until Match   *)
(* first reads the store.                                                   *)

partyName == <<"RAM MEDICOS", "RAM MEDICOS", "SHYAM STORES">>
PartyIds == DOMAIN partyName
TxCounts == {0, 1, 10}
txAmount == <<250, 40, 1000>>

StoreTransaction(id, k) == [PartyID |-> id, TransactionDate |-> 4 * k + id]

\* FindPartiesByIdentifierValuesRow and FindPartiesByNarrationPatternRow
Row(id, type, value) ==
    [ID |-> id, Name |-> partyName[id], MatchType |-> type, MatchValue |-> value]

MaxRows == 2

NoRepeat(rows) == \A a, b \in 1..Len(rows) : a # b => rows[a] # rows[b]

\* the types under which the store may hold the value of an extracted
\* identifier: its own, and for a name the other name type (the same payer
\* seen on an IMPS and on a NEFT narration)
StoredTypes(id) ==
    IF id.Type = TypeIMPSName THEN {TypeIMPSName, TypeNEFTName}
    ELSE IF id.Type = TypeNEFTName THEN {TypeNEFTName, TypeIMPSName}
    ELSE {id.Type}

\* the query with the type column compared in place of the value column
FindPartiesByIdentifierTypes(ids) ==
    LET rowVocab == UNION {{Row(p, ids[k].Type, v) : p \in PartyIds, v \in {ids[k].Value, "SHYAM LAL"}} :
                              k \in 1..Len(ids)}
    IN {rows \in UNION {[1..n -> rowVocab] : n \in 0..MaxRows} : NoRepeat(rows)}

\* SELECT DISTINCT p.*, i.type, i.value ... WHERE i.value IN (values): the rows
\* come in no stated order, none twice; the type is not compared, so a row may
\* carry a stored type other than the extracted one; an identifier (type,
\* value) belongs to one party (UNIQUE(type, value)).
FindPartiesByIdentifierValues(ids) ==
    LET rowVocab == UNION {{Row(p, t, ids[k].Value) : p \in PartyIds, t \in StoredTypes(ids[k])} :
                              k \in 1..Len(ids)}
    IN {rows \in UNION {[1..n -> rowVocab] : n \in 0..MaxRows} :
           /\ NoRepeat(rows)
           /\ \A a, b \in 1..Len(rows) :
                 (rows[a].MatchType = rows[b].MatchType /\ rows[a].MatchValue = rows[b].MatchValue)
                     => rows[a].ID = rows[b].ID}

\* SELECT DISTINCT p.*, t.narration ... WHERE t.narration LIKE pattern: one
\* row per party and matching narration, of parties that have transactions
FindPartiesByNarrationPattern(pattern) ==
    LET rowVocab == {Row(p, "", "") : p \in {q \in DOMAIN txCount : txCount[q] > 0}}
    IN UNION {[1..n -> rowVocab] : n \in 0..MaxRows}

\* GetPartyWithTransactionCount: COUNT(t.id), SUM(t.amount) (NULL without rows)
GetPartyWithTransactionCount(id) ==
    [TransactionCount |-> txCount[id],
     TotalAmount |-> [Valid |-> txCount[id] > 0, Float64 |-> txCount[id] * txAmount[id]]]

\* GetRecentTransactionsByPartyID: ORDER BY transaction_date DESC LIMIT limit
GetRecentTransactionsByPartyID(id, limit) ==
    LET n == Min(txCount[id], limit)
    IN [k \in 1..n |-> StoreTransaction(id, txCount[id] + 1 - k)]

-----------------------------------------------------------------------------
(* The parts of Match and matchByNarration                                  *)

TrimPrefix(s, p) == IF HasPrefix(s, p) THEN SubSeq(s, Len(p) + 1, Len(s)) ELSE s
TrimSuffix(s, p) == IF HasSuffix(s, p) THEN SubSeq(s, 1, Len(s) - Len(p)) ELSE s

\* strings.Split(s, "/"), with part the text since the last separator
RECURSIVE SplitFrom(_, _, _)
SplitFrom(s, k, part) ==
    IF k > Len(s) THEN <<part>>
    ELSE IF At(s, k) = "/" THEN <<part>> \o SplitFrom(s, k + 1, "")
    ELSE SplitFrom(s, k + 1, part \o At(s, k))
Split(s) == SplitFrom(s, 1, "")

containsInt64(slice, val) == \E k \in 1..Len(slice) : slice[k] = val

containsIdentifier(slice, id) ==
    \E k \in 1..Len(slice) : slice[k].Type = id.Type /\ slice[k].Value = id.Value

MatchResult(match, conf, matched) ==
    [Party |-> [ID |-> match.ID, Name |-> match.Name],
     PartyIDs |-> <<match.ID>>,
     Confidence |-> conf,
     MatchedOn |-> matched,
     TransactionCount |-> 0,
     TotalAmount |-> 0,
     RecentTxns |-> <<>>]

\* the rows grouped by the internal id
partyKeyByID(match) == ToString(match.ID)

\* partyMatches[match.Name]
partyKey(match) == match.Name

\* the map with key k set to result; order keeps the keys as they entered
Put(pm, k, result) ==
    [byKey |-> [n \in DOMAIN pm.byKey \cup {k} |-> IF n = k THEN result ELSE pm.byKey[n]],
     order |-> IF k \in DOMAIN pm.byKey THEN pm.order ELSE Append(pm.order, k)]

\* the grouping loop of Match from matches[k] on
RECURSIVE GroupFrom(_, _, _)
GroupFrom(rows, k, pm) ==
    IF k > Len(rows) THEN pm
    ELSE LET match == rows[k]
             exists == partyKey(match) \in DOMAIN pm.byKey
             result == IF exists THEN pm.byKey[partyKey(match)] ELSE MatchResult(match, 0, <<>>)
             withID == IF exists /\ ~containsInt64(result.PartyIDs, match.ID)
                       THEN [result EXCEPT !.PartyIDs = Append(@, match.ID)]
                       ELSE result
             identifier == MatchedIdentifier(match.MatchType, match.MatchValue)
             withOn == IF containsIdentifier(withID.MatchedOn, identifier) THEN withID
                       ELSE [withID EXCEPT !.MatchedOn = Append(@, identifier)]
         IN GroupFrom(rows, k + 1, Put(pm, partyKey(match), withOn))

\* the grouping loop of matchByNarration for one pattern, from matches[k] on
RECURSIVE GroupNarrationFrom(_, _, _, _)
GroupNarrationFrom(rows, k, pattern, pm) ==
    IF k > Len(rows) THEN pm
    ELSE LET match == rows[k]
             exists == partyKey(match) \in DOMAIN pm.byKey
             value == TrimPrefix(TrimSuffix(pattern, "%"), "%")
             result == IF exists THEN pm.byKey[partyKey(match)]
                       ELSE MatchResult(match, Points(40), <<MatchedIdentifier("narration", value)>>)
             withID == IF exists /\ ~containsInt64(result.PartyIDs, match.ID)
                       THEN [result EXCEPT !.PartyIDs = Append(@, match.ID)]
                       ELSE result
         IN GroupNarrationFrom(rows, k + 1, pattern, Put(pm, partyKey(match), withID))

\* math.Log10(n) * 1000 for n = 1, 2, ..., to the nearest whole number
Log10Milli ==
    <<0, 301, 477, 602, 699, 778, 845, 903, 954, 1000,
      1041, 1079, 1114, 1146, 1176, 1204, 1230, 1255, 1279, 1301,
      1322, 1342, 1362, 1380, 1398, 1415, 1431, 1447, 1462, 1477,
      1491, 1505, 1519, 1531, 1544, 1556, 1568, 1580, 1591, 1602>>

\* a * b / c, rounded down, without the product a * b
MulDiv(a, b, c) == (a \div c) * b + ((a % c) * b) \div c

\* the boost applied whatever the confidence becomes
ApplyBoostUncapped(conf, totalTxCount) ==
    IF totalTxCount > 0
    THEN conf + MulDiv(conf, Log10Milli[totalTxCount], 10000)
    ELSE conf

\* the boost with a tenfold weight on the history
ApplyBoostTenfold(conf, totalTxCount) ==
    IF totalTxCount > 0
    THEN Min(conf + MulDiv(conf, Log10Milli[totalTxCount], 1000), Points(100))
    ELSE conf

\* historyBoost := 1.0 + math.Log10(float64(totalTxCount))*0.1
\* result.Confidence = math.Min(result.Confidence*historyBoost, 100.0)
ApplyBoost(conf, totalTxCount) ==
    IF totalTxCount > 0
    THEN Min(conf + MulDiv(conf, Log10Milli[totalTxCount], 10000), Points(100))
    ELSE conf

\* sort.Slice of at most twelve elements is an insertion sort: x moves left
\* while less(x, left neighbour).  Here less(a, b) is a.key > b.key.
RECURSIVE InsertLeft(_, _)
InsertLeft(sorted, x) ==
    IF sorted = <<>> \/ ~(x.key > sorted[Len(sorted)].key) THEN Append(sorted, x)
    ELSE Append(InsertLeft(SubSeq(sorted, 1, Len(sorted) - 1), x), sorted[Len(sorted)])
RECURSIVE SortKeyed(_)
SortKeyed(keyed) ==
    IF keyed = <<>> THEN <<>>
    ELSE InsertLeft(SortKeyed(SubSeq(keyed, 1, Len(keyed) - 1)), keyed[Len(keyed)])
SortSlice(slice, key(_)) ==
    LET sorted == SortKeyed([k \in 1..Len(slice) |-> [key |-> key(slice[k]), item |-> slice[k]]])
    IN [k \in 1..Len(sorted) |-> sorted[k].item]

TransactionDateOf(t) == t.TransactionDate
ConfidenceOf(r) == r.Confidence
MinusConfidenceOf(r) == 0 - r.Confidence

\* allRecentTxns[i].TransactionDate.After(allRecentTxns[j].TransactionDate)
SortByDate(txns) == SortSlice(txns, TransactionDateOf)

\* the results left as the loop over the map appended them
SortByConfidenceUnsorted(rs) == rs

\* the results sorted by rising confidence
SortByConfidenceAscending(rs) == SortSlice(rs, MinusConfidenceOf)

\* sort.Slice(results, func(i, j int) bool { return results[i].Confidence > results[j].Confidence })
SortByConfidence(rs) == SortSlice(rs, ConfidenceOf)

\* the loop over result.PartyIDs from ids[k] on; ok[id] tells which lookups
\* of party id succeed
RECURSIVE AggregateFrom(_, _, _, _)
AggregateFrom(ids, k, ok, acc) ==
    IF k > Len(ids) THEN acc
    ELSE LET partyID == ids[k]
             stats == GetPartyWithTransactionCount(partyID)
             counted == IF ok[partyID].stats
                        THEN [acc EXCEPT !.totalTxCount = @ + stats.TransactionCount,
                                         !.totalAmount = IF stats.TotalAmount.Valid
                                                         THEN @ + stats.TotalAmount.Float64 ELSE @]
                        ELSE acc
             listed == IF ok[partyID].recent
                       THEN [counted EXCEPT !.allRecentTxns =
                                @ \o GetRecentTransactionsByPartyID(partyID, 5)]
                       ELSE counted
         IN AggregateFrom(ids, k + 1, ok, listed)

\* a failed lookup leaves the candidate without any boost or history
WithHistoryAllOrNothing(result, ok) ==
    LET agg == AggregateFrom(result.PartyIDs, 1, ok,
                             [totalTxCount |-> 0, totalAmount |-> 0, allRecentTxns |-> <<>>])
        sorted == SortByDate(agg.allRecentTxns)
    IN IF \E k \in 1..Len(result.PartyIDs) :
              ~ok[result.PartyIDs[k]].stats \/ ~ok[result.PartyIDs[k]].recent
       THEN result
       ELSE [result EXCEPT !.TransactionCount = agg.totalTxCount,
                           !.TotalAmount = agg.totalAmount,
                           !.RecentTxns = SubSeq(sorted, 1, Min(Len(sorted), 5)),
                           !.Confidence = ApplyBoost(@, agg.totalTxCount)]

\* the body of the loop over partyMatches after the base confidence: the
\* statistics aggregated, the recent transactions sorted and cut to five, the
\* history boost applied
WithHistory(result, ok) ==
    LET agg == AggregateFrom(result.PartyIDs, 1, ok,
                             [totalTxCount |-> 0, totalAmount |-> 0, allRecentTxns |-> <<>>])
        sorted == SortByDate(agg.allRecentTxns)
    IN [result EXCEPT !.TransactionCount = agg.totalTxCount,
                      !.TotalAmount = agg.totalAmount,
                      !.RecentTxns = SubSeq(sorted, 1, Min(Len(sorted), 5)),
                      !.Confidence = ApplyBoost(@, agg.totalTxCount)]

\* the patterns matchByNarration searches for
IsReference(part) == Len(part) = 12 /\ AllIn(part, Digit)
NamePatterns(ids) ==
    SelectSeq([k \in 1..Len(ids) |->
                  IF ids[k].Type \in {TypeIMPSName, TypeNEFTName} THEN "%" \o ids[k].Value \o "%" ELSE ""],
              LAMBDA x : x # "")
ReferencePatterns(narration) ==
    IF Contains(ToUpper(narration), "MMT/IMPS/")
    THEN LET parts == Split(narration)
             trimmed == [k \in 1..Len(parts) |-> TrimSpace(parts[k])]
             refs == SelectSeq(trimmed, IsReference)
         IN [k \in 1..Len(refs) |-> "%" \o refs[k] \o "%"]
    ELSE <<>>
SearchPatterns(narration, ids) ==
    IF NamePatterns(ids) # <<>> THEN NamePatterns(ids) ELSE ReferencePatterns(narration)

-----------------------------------------------------------------------------
(* Matcher.Match as a state machine: Extract runs block by block, then the  *)
(* lookup, the grouping, one step per candidate of the scoring loop, and    *)
(* the sort; matchByNarration likewise when the lookup finds nothing.       *)

MatchVocab == {
    "MMT/IMPS/510615959587/OK/RAM KUMAR/HDFC BANK ab@ybl",
    "MMT/IMPS/510615959587/RAM KUMAR/SHYAM LAL/HDFC BANK",
    "MMT/IMPS/529816026379",
    "CHQ DEPOSIT 5677" }

MatchInit ==
    /\ tables = <<>>
    /\ lines = <<>>
    /\ year = 0
    /\ i = 1
    /\ transactions = <<>>
    /\ currentTx = <<>>
    /\ narrationLines = <<>>
    /\ lastDate = ZeroTime
    /\ pc = "idle"
    /\ opened = <<>>
    /\ emittedFrom = <<>>
    /\ curFrom = 0
    /\ txNarration = "" /\ txPaymentMode = ""
    /\ exNarration \in MatchVocab
    /\ exUpper = ToUpper(exNarration)
    /\ identifiers = <<>>
    /\ seen = {}
    /\ exPc = "upi"
    /\ results = <<>>
    /\ ScoreIdle
    /\ mPc = "extract"
    /\ txCount = <<>>
    /\ matches = <<>> /\ patterns = <<>> /\ partyMatches = <<>>
    /\ scored = <<>> /\ matchResults = <<>> /\ matchErr = FALSE
    /\ firstSeen = <<>> /\ lookups = <<>> /\ failed = {}
    /\ ServerIdle

notMatchVars == <<parserVars, detectVars, scoreVars, serverVars, exNarration, exUpper, identifiers, seen,
                  results>>

\* the lookup followed by the narration search whatever the lookup found
FindPartiesThenNarration ==
    /\ mPc = "extract" /\ exPc = "return"
    /\ txCount' \in (IF txCount = <<>> THEN [PartyIds -> TxCounts] ELSE {txCount})
    /\ \E rows \in (IF Len(identifiers) > 0 THEN FindPartiesByIdentifierValues(identifiers)
                    ELSE {<<>>}) :
          /\ matches' = rows
          /\ mPc' = "patterns"
    /\ exPc' = "done"
    /\ UNCHANGED <<notMatchVars, patterns, partyMatches, scored, matchResults, matchErr,
                   firstSeen, lookups, failed>>

\* identifiers := extractor.Extract(narration) has returned; the store, whose
\* contents show from here on, answers the query for their values
FindParties ==
    /\ mPc = "extract" /\ exPc = "return"
    /\ txCount' \in (IF txCount = <<>> THEN [PartyIds -> TxCounts] ELSE {txCount})
    /\ \E rows \in (IF Len(identifiers) > 0 THEN FindPartiesByIdentifierValues(identifiers)
                    ELSE {<<>>}) :
          /\ matches' = rows
          /\ mPc' = IF Len(rows) = 0 THEN "patterns" ELSE "group"
    /\ exPc' = "done"
    /\ UNCHANGED <<notMatchVars, patterns, partyMatches, scored, matchResults, matchErr,
                   firstSeen, lookups, failed>>

\* the query fails: return nil, err
FindPartiesFails ==
    /\ mPc = "extract" /\ exPc = "return"
    /\ Len(identifiers) > 0
    /\ matchErr' = TRUE
    /\ failed' = failed \cup {"FindPartiesByIdentifierValues"}
    /\ mPc' = "done"
    /\ exPc' = "done"
    /\ UNCHANGED <<notMatchVars, txCount, matches, patterns, partyMatches, scored, matchResults,
                   firstSeen, lookups>>

\* Group matches by party name (not ID)
GroupMatches ==
    /\ mPc = "group"
    /\ LET pm == GroupFrom(matches, 1, [byKey |-> <<>>, order |-> <<>>])
       IN partyMatches' = pm.byKey /\ firstSeen' = pm.order
    /\ mPc' = "score"
    /\ UNCHANGED <<notMatchVars, exPc, txCount, matches, patterns, scored, matchResults, matchErr,
                   lookups, failed>>

Range(f) == {f[x] : x \in DOMAIN f}
Outcomes(ids) == [Range(ids) -> [stats : BOOLEAN, recent : BOOLEAN]]
Merge(f, g) == [x \in DOMAIN f \cup DOMAIN g |-> IF x \in DOMAIN g THEN g[x] ELSE f[x]]
\* the calls of one iteration that returned an error
FailedCalls(ok) ==
    {"GetPartyWithTransactionCount" : id \in {x \in DOMAIN ok : ~ok[x].stats}}
        \cup {"GetRecentTransactionsByPartyID" : id \in {x \in DOMAIN ok : ~ok[x].recent}}

\* one iteration of the loop over the map, which ranges in any order; each
\* lookup of the iteration succeeds or fails
ScoreStep(withBase(_)) ==
    /\ \E key \in DOMAIN partyMatches \ Range(scored) :
          \E ok \in Outcomes(partyMatches[key].PartyIDs) :
              /\ partyMatches' = [partyMatches EXCEPT ![key] = WithHistory(withBase(@), ok)]
              /\ scored' = Append(scored, key)
              /\ lookups' = Merge(lookups, ok)
              /\ failed' = failed \cup FailedCalls(ok)
    /\ UNCHANGED <<notMatchVars, exPc, mPc, txCount, matches, patterns, matchResults, matchErr,
                   firstSeen>>

\* the sort of the results and the return
SortStep ==
    /\ DOMAIN partyMatches \subseteq Range(scored)
    /\ matchResults' = SortByConfidence([k \in 1..Len(scored) |-> partyMatches[scored[k]]])
    /\ mPc' = "done"
    /\ UNCHANGED <<notMatchVars, exPc, txCount, matches, patterns, partyMatches, scored, matchErr,
                   firstSeen, lookups, failed>>

\* result.Confidence = calculateConfidence(result.MatchedOn)
WithBaseConfidence(result) ==
    [result EXCEPT !.Confidence = calculateConfidence(result.MatchedOn)]
Unchanged(result) == result

ScoreCandidate ==
    /\ mPc = "score"
    /\ ScoreStep(WithBaseConfidence)
SortResults ==
    /\ mPc = "score"
    /\ SortStep

\* matchByNarration: the search patterns; without any, return nil, nil
BuildPatterns ==
    /\ mPc = "patterns"
    /\ patterns' = SearchPatterns(exNarration, identifiers)
    /\ mPc' = IF patterns' = <<>> THEN "done" ELSE "query"
    /\ UNCHANGED <<notMatchVars, exPc, txCount, matches, partyMatches, scored, matchResults, matchErr,
                   firstSeen, lookups, failed>>

\* the query for the next pattern, its rows grouped by party name
QueryPattern ==
    /\ mPc = "query"
    /\ \E rows \in FindPartiesByNarrationPattern(Head(patterns)) :
          LET pm == GroupNarrationFrom(rows, 1, Head(patterns),
                                       [byKey |-> partyMatches, order |-> firstSeen])
          IN partyMatches' = pm.byKey /\ firstSeen' = pm.order
    /\ patterns' = Tail(patterns)
    /\ mPc' = IF patterns' = <<>> THEN "narrationScore" ELSE "query"
    /\ UNCHANGED <<notMatchVars, exPc, txCount, matches, scored, matchResults, matchErr, lookups,
                   failed>>

\* the query for the next pattern fails and matchByNarration returns the error
QueryPatternAborts ==
    /\ mPc = "query"
    /\ failed' = failed \cup {"FindPartiesByNarrationPattern"}
    /\ matchErr' = TRUE
    /\ mPc' = "done"
    /\ UNCHANGED <<notMatchVars, exPc, txCount, matches, patterns, partyMatches, scored,
                   matchResults, firstSeen, lookups>>

\* the query for the next pattern fails: continue
QueryPatternFails ==
    /\ mPc = "query"
    /\ failed' = failed \cup {"FindPartiesByNarrationPattern"}
    /\ patterns' = Tail(patterns)
    /\ mPc' = IF patterns' = <<>> THEN "narrationScore" ELSE "query"
    /\ UNCHANGED <<notMatchVars, exPc, txCount, matches, partyMatches, scored, matchResults, matchErr,
                   firstSeen, lookups>>

ScoreNarrationCandidate ==
    /\ mPc = "narrationScore"
    /\ ScoreStep(Unchanged)
SortNarrationResults ==
    /\ mPc = "narrationScore"
    /\ SortStep

MatchNext ==
    \/ ExtractUPI
    \/ ExtractUPINarration
    \/ ExtractUPINarration2
    \/ ExtractUPINarration3
    \/ ExtractUPINarration4
    \/ ExtractUPINarration5
    \/ ExtractPhone
    \/ ExtractAccount
    \/ ExtractAccountAlt
    \/ ExtractIFSC
    \/ ExtractIMPS
    \/ ExtractNEFT
    \/ ExtractCashBankCode
    \/ ExtractCashLocation
    \/ ExtractCashAgentCode
    \/ ExtractFrom
    \/ FindParties
    \/ FindPartiesFails
    \/ GroupMatches
    \/ ScoreCandidate
    \/ SortResults
    \/ BuildPatterns
    \/ QueryPattern
    \/ QueryPatternFails
    \/ ScoreNarrationCandidate
    \/ SortNarrationResults

MatchSpec == MatchInit /\ [][MatchNext]_vars

-----------------------------------------------------------------------------
(* Properties of Matcher.Match                                              *)

MatchReturned == mPc = "done" /\ ~matchErr
OnIdentifierPath == matches # <<>>
OnNarrationPath == matches = <<>> /\ firstSeen # <<>>
Positions == 1..Len(matchResults)
TypesMatched(r) == TypesOf(r.MatchedOn)

\* the confidence of a candidate before the history boost
BaseOf(r) == IF OnIdentifierPath THEN calculateConfidence(r.MatchedOn) ELSE Points(40)

\* the transactions the store holds for the ids whose statistics lookup succeeded
RECURSIVE CountedFrom(_, _)
CountedFrom(ids, k) ==
    IF k > Len(ids) THEN 0
    ELSE (IF lookups[ids[k]].stats THEN txCount[ids[k]] ELSE 0) + CountedFrom(ids, k + 1)
Counted(r) == CountedFrom(r.PartyIDs, 1)

\* C11: the list Match returns is ordered by final confidence, non-increasing
\* from first to last, on the identifier path and on the narration path.
C11_SortedByConfidence ==
    MatchReturned =>
        \A a, b \in Positions :
            a < b => matchResults[a].Confidence >= matchResults[b].Confidence

\* the scoring loop met the less confident of two candidates first and the
\* sort put it last
C11_Witness ==
    /\ MatchReturned
    /\ OnIdentifierPath
    /\ Len(matchResults) = 2
    /\ matchResults[1].Confidence > matchResults[2].Confidence
    /\ matchResults[1].Party.Name = partyMatches[scored[2]].Party.Name
    /\ matchResults[2].Party.Name = partyMatches[scored[1]].Party.Name

\* the place of a party name in the order of first encounter
RECURSIVE IndexOf(_, _, _)
IndexOf(seq, x, k) == IF k > Len(seq) \/ seq[k] = x THEN k ELSE IndexOf(seq, x, k + 1)
Encountered(r) == IndexOf(firstSeen, partyKey(r.Party), 1)

\* C12: candidates of equal final confidence appear in the order in which
\* their parties were first encountered in the lookup results.
C12_TiesInInsertionOrder ==
    (MatchReturned /\ OnIdentifierPath) =>
        \A a, b \in Positions :
            (a < b /\ matchResults[a].Confidence = matchResults[b].Confidence)
                => Encountered(matchResults[a]) < Encountered(matchResults[b])

\* C13: every candidate Match returns has a confidence within [0, 100].
C13_ConfidenceInRange ==
    MatchReturned =>
        \A a \in Positions :
            /\ matchResults[a].Confidence >= 0
            /\ matchResults[a].Confidence <= Points(100)

\* a candidate matched on a UPI handle has a transaction history, and its
\* boosted confidence was cut to 100
C13_Witness ==
    /\ MatchReturned
    /\ \E a \in Positions :
          /\ TypeUPIVPA \in TypesMatched(matchResults[a])
          /\ matchResults[a].TransactionCount > 0
          /\ matchResults[a].Confidence = Points(100)
          /\ BaseOf(matchResults[a]) < Points(100)

\* C17: a candidate whose transaction count, aggregated over its merged
\* internal ids, is greater than 0 has the confidence
\* min(base * (1 + log10(count) * 0.1), 100); with a count of 0 it keeps its
\* base confidence.  The count is that of the ids whose statistics the store
\* returned.
C17_HistoryBoost ==
    MatchReturned =>
        \A a \in Positions :
            LET r == matchResults[a]
                base == BaseOf(r)
                count == Counted(r)
            IN /\ r.TransactionCount = count
               /\ r.Confidence =
                     IF count > 0
                     THEN Min(base + MulDiv(base, Log10Milli[count], 10000), Points(100))
                     ELSE base

\* a candidate merged from two internal ids has the transactions of both
\* counted and a confidence above its base and below 100
C17_Witness ==
    /\ MatchReturned
    /\ \E a \in Positions :
          LET r == matchResults[a]
          IN /\ Len(r.PartyIDs) = 2
             /\ r.TransactionCount = txCount[r.PartyIDs[1]] + txCount[r.PartyIDs[2]]
             /\ txCount[r.PartyIDs[1]] > 0 /\ txCount[r.PartyIDs[2]] > 0
             /\ r.Confidence > BaseOf(r)
             /\ r.Confidence < Points(100)

\* C18: of two candidates, one matched only on a bank name and one matched
\* on a UPI handle, the one matched on the UPI handle comes first, whatever
\* the transaction counts of the two parties.
C18_UpiBeforeBankName ==
    MatchReturned =>
        \A a, b \in Positions :
            (/\ TypesMatched(matchResults[a]) = {TypeBankName}
             /\ TypeUPIVPA \in TypesMatched(matchResults[b]))
                => b < a

\* the candidate matched on the bank name has the longer history, the one
\* matched on the UPI handle none, and the latter is first
C18_Witness ==
    /\ MatchReturned
    /\ Len(matchResults) = 2
    /\ TypesMatched(matchResults[1]) = {TypeUPIVPA}
    /\ TypesMatched(matchResults[2]) = {TypeBankName}
    /\ matchResults[1].TransactionCount = 0
    /\ matchResults[2].TransactionCount >= 10
    /\ scored[1] = partyKey(matchResults[2].Party)

\* the ids of the rows that carry the name
IdsNamed(name) == {matches[k].ID : k \in {j \in 1..Len(matches) : matches[j].Name = name}}

\* C19: lookup rows are grouped by party name: all internal records sharing
\* a name give exactly one candidate, whose list of merged ids holds each
\* such id exactly once.
C19_GroupedByName ==
    (MatchReturned /\ OnIdentifierPath) =>
        /\ \A k \in 1..Len(matches) :
              Cardinality({a \in Positions : matchResults[a].Party.Name = matches[k].Name}) = 1
        /\ \A a \in Positions :
              LET r == matchResults[a]
              IN /\ Range(r.PartyIDs) = IdsNamed(r.Party.Name)
                 /\ Len(r.PartyIDs) = Cardinality(IdsNamed(r.Party.Name))

\* two internal records of one name matched, each on its own identifier,
\* and Match returns one candidate with both ids
C19_Witness ==
    /\ MatchReturned
    /\ Len(matches) = 2
    /\ matches[1].Name = matches[2].Name
    /\ matches[1].ID # matches[2].ID
    /\ Len(matchResults) = 1
    /\ matchResults[1].PartyIDs = <<matches[1].ID, matches[2].ID>>

\* the ids whose recent transactions the store returned
Listed(r) == {r.PartyIDs[k] : k \in {j \in 1..Len(r.PartyIDs) : lookups[r.PartyIDs[j]].recent}}

\* C20: when the statistics lookup or the recent-transactions lookup fails
\* for a party id, Match still returns without error and the candidate stays
\* in the result: it counts and is boosted by the transactions of its other
\* ids only, it lists recent transactions of no id whose lookup failed, and
\* with no statistics at all it has its base confidence.
C20_LookupFailureDegrades ==
    (mPc = "done" /\ lookups # <<>>) =>
        /\ ~matchErr
        /\ \A key \in DOMAIN partyMatches :
              \E a \in Positions : partyKey(matchResults[a].Party) = key
        /\ \A a \in Positions :
              LET r == matchResults[a]
              IN /\ r.TransactionCount = Counted(r)
                 /\ r.Confidence >= BaseOf(r)
                 /\ Counted(r) = 0 => r.Confidence = BaseOf(r)
                 /\ {r.RecentTxns[k].PartyID : k \in 1..Len(r.RecentTxns)} \subseteq Listed(r)
                 /\ (\E id \in Listed(r) : txCount[id] > 0) => r.RecentTxns # <<>>

\* a candidate merged from two ids with transactions: the statistics of one
\* and the recent transactions of the other failed, and the candidate is
\* returned with the boost of the one and the transactions of the other
C20_Witness ==
    /\ MatchReturned
    /\ \E a \in Positions :
          LET r == matchResults[a]
          IN /\ Len(r.PartyIDs) = 2
             /\ txCount[r.PartyIDs[1]] > 1 /\ txCount[r.PartyIDs[2]] > 1
             /\ ~lookups[r.PartyIDs[1]].stats /\ lookups[r.PartyIDs[1]].recent
             /\ lookups[r.PartyIDs[2]].stats /\ ~lookups[r.PartyIDs[2]].recent
             /\ r.TransactionCount = txCount[r.PartyIDs[2]]
             /\ r.Confidence > BaseOf(r)
             /\ r.RecentTxns # <<>>

\* C21 as stated: whichever store call fails, Match returns a candidate list
\* and no error.
C21_NoStoreFailureAborts ==
    (mPc = "done" /\ failed # {}) => ~matchErr

\* C21 as amended: Match returns an error exactly when the first query,
\* FindPartiesByIdentifierValues, failed; a failure of the narration query, of
\* the statistics lookup or of the recent-transactions lookup leaves Match
\* returning its list.
C21_OnlyIdentifierQueryAborts ==
    mPc = "done" =>
        /\ matchErr <=> "FindPartiesByIdentifierValues" \in failed
        /\ matchErr => matchResults = <<>>

\* a call in which the narration query failed for one pattern, and both
\* lookups of a candidate found by the other pattern, and that returns it
C21_Witness ==
    /\ MatchReturned
    /\ failed = {"FindPartiesByNarrationPattern", "GetPartyWithTransactionCount",
                 "GetRecentTransactionsByPartyID"}
    /\ matchResults # <<>>

\* C22: matchByNarration runs only in a call whose identifier lookup gave no
\* row; a call whose lookup gave a row returns only candidates of the parties
\* named in the rows, none of them matched on the type "narration".
C22_FallbackOnlyWithoutMatches ==
    /\ mPc \in {"patterns", "query", "narrationScore"} => matches = <<>>
    /\ (MatchReturned /\ matches # <<>>) =>
           \A k \in Positions :
               /\ "narration" \notin TypesMatched(matchResults[k])
               /\ \E j \in 1..Len(matches) : matches[j].Name = matchResults[k].Party.Name

\* a call that returned identifier matches for a narration from which the
\* fallback could have built search patterns, over a store with transactions
\* for them to find
C22_Witness ==
    /\ MatchReturned /\ matches # <<>> /\ matchResults # <<>>
    /\ SearchPatterns(exNarration, identifiers) # <<>>
    /\ \E p \in PartyIds : txCount[p] > 0

Extracted(type, value) ==
    \E k \in 1..Len(identifiers) : identifiers[k].Type = type /\ identifiers[k].Value = value
ExtractedValue(value) == \E k \in 1..Len(identifiers) : identifiers[k].Value = value

\* C30 as stated: every identifier listed as matched-on for a candidate on the
\* identifier path is a (type, value) pair Extract produced from the narration.
C30_MatchedOnExtractedPair ==
    (MatchReturned /\ OnIdentifierPath) =>
        \A a \in Positions : \A x \in 1..Len(matchResults[a].MatchedOn) :
            Extracted(matchResults[a].MatchedOn[x].Type, matchResults[a].MatchedOn[x].Value)

\* C30: every identifier listed as matched-on for a candidate on the identifier
\* path has a value Extract produced from the narration, and is the type and
\* value of a row the lookup returned for that party.
C30_MatchedOnExtractedValue ==
    (MatchReturned /\ OnIdentifierPath) =>
        \A a \in Positions : \A x \in 1..Len(matchResults[a].MatchedOn) :
            LET on == matchResults[a].MatchedOn[x]
            IN /\ ExtractedValue(on.Value)
               /\ \E j \in 1..Len(matches) :
                     /\ matches[j].Name = matchResults[a].Party.Name
                     /\ matches[j].MatchType = on.Type /\ matches[j].MatchValue = on.Value

\* a candidate matched on the name RAM KUMAR stored as a NEFT name, for a
\* narration from which Extract took it as an IMPS name only
C30_Witness ==
    /\ MatchReturned /\ OnIdentifierPath
    /\ Extracted(TypeIMPSName, "RAM KUMAR") /\ ~Extracted(TypeNEFTName, "RAM KUMAR")
    /\ \E a \in Positions : \E x \in 1..Len(matchResults[a].MatchedOn) :
          matchResults[a].MatchedOn[x] = MatchedIdentifier(TypeNEFTName, "RAM KUMAR")

-----------------------------------------------------------------------------
(* Two callers.  net/http serves every request on a goroutine of its own,   *)
(* so two calls of Parse, Extract or Match can run at once.  Each call      *)
(* keeps its variables on its own stack: the variables of the sections      *)
(* above hold those of the caller that is running, `parked` those of the    *)
(* other, and Yield passes the processor between them after any step.  The  *)
(* package-level tables and the store belong to the process, not to a call. *)

\* the locals of the running caller
Locals ==
    [lines |-> lines, year |-> year, i |-> i, transactions |-> transactions,
     currentTx |-> currentTx, narrationLines |-> narrationLines, lastDate |-> lastDate,
     pc |-> pc, opened |-> opened, emittedFrom |-> emittedFrom, curFrom |-> curFrom,
     exNarration |-> exNarration, exUpper |-> exUpper, identifiers |-> identifiers,
     seen |-> seen, exPc |-> exPc, results |-> results, mPc |-> mPc, matches |-> matches,
     patterns |-> patterns, partyMatches |-> partyMatches, scored |-> scored,
     matchResults |-> matchResults, matchErr |-> matchErr, firstSeen |-> firstSeen,
     lookups |-> lookups, failed |-> failed]

\* the locals of a goroutine that has not called anything
IdleFrame ==
    [lines |-> <<>>, year |-> 0, i |-> 1, transactions |-> <<>>,
     currentTx |-> <<>>, narrationLines |-> <<>>, lastDate |-> ZeroTime,
     pc |-> "idle", opened |-> <<>>, emittedFrom |-> <<>>, curFrom |-> 0,
     exNarration |-> "", exUpper |-> "", identifiers |-> <<>>,
     seen |-> {}, exPc |-> "idle", results |-> <<>>, mPc |-> "idle", matches |-> <<>>,
     patterns |-> <<>>, partyMatches |-> <<>>, scored |-> <<>>,
     matchResults |-> <<>>, matchErr |-> FALSE, firstSeen |-> <<>>,
     lookups |-> <<>>, failed |-> {}]

\* the locals at the entry of each function
ParseCall(text, y) == [IdleFrame EXCEPT !.lines = text, !.year = y, !.pc = "loop"]
ExtractCall(n) == [IdleFrame EXCEPT !.exNarration = n, !.exUpper = ToUpper(n), !.exPc = "upi"]
MatchCall(n) == [ExtractCall(n) EXCEPT !.mPc = "extract"]

\* the running caller's locals are (become) those of frame f
Holds(f) ==
    /\ lines = f.lines /\ year = f.year /\ i = f.i /\ transactions = f.transactions
    /\ currentTx = f.currentTx /\ narrationLines = f.narrationLines /\ lastDate = f.lastDate
    /\ pc = f.pc /\ opened = f.opened /\ emittedFrom = f.emittedFrom /\ curFrom = f.curFrom
    /\ exNarration = f.exNarration /\ exUpper = f.exUpper /\ identifiers = f.identifiers
    /\ seen = f.seen /\ exPc = f.exPc /\ results = f.results /\ mPc = f.mPc
    /\ matches = f.matches /\ patterns = f.patterns /\ partyMatches = f.partyMatches
    /\ scored = f.scored /\ matchResults = f.matchResults /\ matchErr = f.matchErr
    /\ firstSeen = f.firstSeen /\ lookups = f.lookups /\ failed = f.failed
Load(f) ==
    /\ lines' = f.lines /\ year' = f.year /\ i' = f.i /\ transactions' = f.transactions
    /\ currentTx' = f.currentTx /\ narrationLines' = f.narrationLines /\ lastDate' = f.lastDate
    /\ pc' = f.pc /\ opened' = f.opened /\ emittedFrom' = f.emittedFrom /\ curFrom' = f.curFrom
    /\ exNarration' = f.exNarration /\ exUpper' = f.exUpper /\ identifiers' = f.identifiers
    /\ seen' = f.seen /\ exPc' = f.exPc /\ results' = f.results /\ mPc' = f.mPc
    /\ matches' = f.matches /\ patterns' = f.patterns /\ partyMatches' = f.partyMatches
    /\ scored' = f.scored /\ matchResults' = f.matchResults /\ matchErr' = f.matchErr
    /\ firstSeen' = f.firstSeen /\ lookups' = f.lookups /\ failed' = f.failed

\* the calls the first caller makes, and the store the callers read
ConcurrentTexts == {
    <<"SUB TOTAL 73494.00", "UPI/5458/UPI/ALOK@/PNB", "Apr 2 NIDHI STORE GEHLO 5361.00",
      "UPI/5458/UPI/ALOK@/PNB">>,
    <<"  Apr 3 RAM MEDICOS 17.50 ", "PANKAJ MEDICAL KANPUR 3780.00",
      "ICICI 192105002017 9141.00">> }
ConcurrentNarrations == {
    "MMT/IMPS/510615959587/OK/RAM KUMAR/HDFC BANK",
    "A/C 123456789012 SBIN0001234 ab@ybl AB@YBL" }
ConcurrentQueries == {
    "PAID TO ab@ybl",
    "MMT/IMPS/529816026379" }
ConcurrentStores == {<<1, 10, 0>>}

AloneCalls ==
    {ParseCall(t, y) : t \in ConcurrentTexts, y \in Years}
        \cup {ExtractCall(n) : n \in ConcurrentNarrations}
MatchCalls == {MatchCall(n) : n \in ConcurrentQueries}
\* the calls of the second caller
ConcurrentCalls ==
    {ParseCall(<<"  Apr 3 RAM MEDICOS 17.50 ", "PANKAJ MEDICAL KANPUR 3780.00",
                 "ICICI 192105002017 9141.00">>, 2025),
     ExtractCall("MMT/IMPS/510615959587/OK/RAM KUMAR/HDFC BANK"),
     MatchCall("PAID TO ab@ybl")}

\* the call of frame f has returned; what it returned; the same call again
CallDone(f) ==
    f.pc \in {"idle", "done"} /\ f.exPc \in {"idle", "done"} /\ f.mPc \in {"idle", "done"}
ResultOf(f) ==
    IF f.pc # "idle" THEN f.transactions
    ELSE IF f.mPc # "idle" THEN <<f.matchErr, f.matchResults>>
    ELSE f.results
Again(f) ==
    IF f.pc # "idle" THEN ParseCall(f.lines, f.year)
    ELSE IF f.mPc # "idle" THEN MatchCall(f.exNarration)
    ELSE ExtractCall(f.exNarration)

\* The first caller calls Parse or Extract alone, and then once more while
\* the second caller makes a call of its own; or it calls Match, at once
\* with the second caller.
ConcurrentInit ==
    /\ tables = ParserTables
    /\ txNarration = "" /\ txPaymentMode = ""
    /\ ScoreIdle
    /\ txCount \in ConcurrentStores
    /\ YearIdle
    /\ ImportIdle
    /\ running = 1
    /\ alone = <<>>
    /\ \/ \E c \in AloneCalls : Holds(c) /\ parked = <<>>
       \/ \E c \in MatchCalls : \E d \in ConcurrentCalls : Holds(c) /\ parked = d

\* the first caller's call has returned: it makes the call again, and the
\* second caller starts
StartConcurrent ==
    /\ running = 1 /\ parked = <<>> /\ alone = <<>>
    /\ CallDone(Locals)
    /\ alone' = <<ResultOf(Locals)>>
    /\ Load(Again(Locals))
    /\ \E d \in ConcurrentCalls : parked' = d
    /\ UNCHANGED <<tables, detectVars, scoreVars, txCount, running, yearVars, importVars>>

\* the goroutines change places, the slice seen staying where it is
YieldSharingSeen ==
    /\ parked # <<>> /\ ~CallDone(parked)
    /\ Load([parked EXCEPT !.seen = seen])
    /\ parked' = Locals
    /\ running' = 3 - running
    /\ UNCHANGED <<tables, detectVars, scoreVars, txCount, alone, yearVars, importVars>>

\* the scheduler takes the processor from the running goroutine and gives it
\* to the other, which has not returned yet
Yield ==
    /\ parked # <<>> /\ ~CallDone(parked)
    /\ Load(parked)
    /\ parked' = Locals
    /\ running' = 3 - running
    /\ UNCHANGED <<tables, detectVars, scoreVars, txCount, alone, yearVars, importVars>>

\* Extract returns to a caller other than Match
ExtractReturns == mPc = "idle" /\ ExtractReturn

ConcurrentNext ==
    \/ SkipLine
    \/ DateLine
    \/ BankLine
    \/ PartyLine
    \/ NarrationLine
    \/ DroppedLine
    \/ Return
    \/ ExtractUPI
    \/ ExtractUPINarration
    \/ ExtractUPINarration2
    \/ ExtractUPINarration3
    \/ ExtractUPINarration4
    \/ ExtractUPINarration5
    \/ ExtractPhone
    \/ ExtractAccount
    \/ ExtractAccountAlt
    \/ ExtractIFSC
    \/ ExtractIMPS
    \/ ExtractNEFT
    \/ ExtractCashBankCode
    \/ ExtractCashLocation
    \/ ExtractCashAgentCode
    \/ ExtractFrom
    \/ ExtractReturns
    \/ FindParties
    \/ FindPartiesFails
    \/ GroupMatches
    \/ ScoreCandidate
    \/ SortResults
    \/ BuildPatterns
    \/ QueryPattern
    \/ QueryPatternFails
    \/ ScoreNarrationCandidate
    \/ SortNarrationResults
    \/ StartConcurrent
    \/ Yield

ConcurrentSpec == ConcurrentInit /\ [][ConcurrentNext]_vars

-----------------------------------------------------------------------------
(* Properties of concurrent calls                                           *)

\* the locals of the first caller
FirstCaller == IF running = 1 THEN Locals ELSE parked
SecondCaller == IF running = 1 THEN parked ELSE Locals

\* What the Match call of frame f returns when it runs alone and the store
\* answers as it answered f: the candidates grouped from the rows (on the
\* narration path, the candidates as they entered the map), each scored from
\* its own identifiers and its own lookups, in the order of the map range.
MatchAlone(f) ==
    LET grouped == GroupFrom(f.matches, 1, [byKey |-> <<>>, order |-> <<>>]).byKey
        entered == [key \in DOMAIN f.partyMatches |->
                       [f.partyMatches[key] EXCEPT !.Confidence = Points(40),
                                                   !.TransactionCount = 0,
                                                   !.TotalAmount = 0,
                                                   !.RecentTxns = <<>>]]
        result(key) == IF f.matches # <<>> THEN WithBaseConfidence(grouped[key])
                       ELSE entered[key]
        scoredAlone(key) ==
            WithHistory(result(key), [id \in Range(result(key).PartyIDs) |-> f.lookups[id]])
    IN IF f.matchErr THEN <<>>
       ELSE SortByConfidence([k \in 1..Len(f.scored) |-> scoredAlone(f.scored[k])])

-----------------------------------------------------------------------------
(* The reference year taken from the text: parser.ExtractYearFromHeader,    *)
(* which ImportPreview calls before Parse, and parser.ParseWithAutoYear.    *)

\* \d{2}-\d{2}-(\d{4}), compiled in ParseWithAutoYear
yearPattern == Re(Cat(<<D(2), Lit("-"), D(2), Lit("-"), Cap(1, D(4))>>))

\* the period line of a receipt book, "DD-MM-YYYY - DD-MM-YYYY": the FROM
\* year is group 1, the TO year group 2
headerPattern ==
    Re(Cat(<<D(2), Lit("-"), D(2), Lit("-"), Cap(1, D(4)), WS0, Lit("-"), WS0,
             D(2), Lit("-"), D(2), Lit("-"), Cap(2, D(4))>>))

\* ExtractYearFromHeader: the TO year of the first period line, 0 without one
ExtractYearFromHeader(text) ==
    LET match == FindStringSubmatch(headerPattern, text)
    IN IF match.ok THEN Atoi(Group(text, match, 2)) ELSE 0

\* ParseWithAutoYear: the year it hands to Parse
AutoYear(text, thisYear) ==
    LET match == FindStringSubmatch(yearPattern, text)
    IN IF match.ok THEN Atoi(Group(text, match, 1)) ELSE thisYear

HeaderLines == {
    "RECEIPT BOOK",
    "15-12-2023 - 15-01-2024",
    "01-08-2024 - 31-08-2024",
    "01-10-2025 - 31-10-2025 Page No..1",
    "Chq.704339 Dt. 26-12-2025",
    "Dec 26 BABA MEDICAL 11744.00",
    "" }
HeaderTexts == HeaderLines \cup {a \o "\n" \o b : a, b \in HeaderLines}
ClockYears == {2026}

YearInit ==
    /\ tables = <<>>
    /\ lines = <<>>
    /\ year = 0
    /\ i = 1
    /\ transactions = <<>>
    /\ currentTx = <<>>
    /\ narrationLines = <<>>
    /\ lastDate = ZeroTime
    /\ pc = "idle"
    /\ opened = <<>>
    /\ emittedFrom = <<>>
    /\ curFrom = 0
    /\ txNarration = "" /\ txPaymentMode = ""
    /\ ExtractIdle
    /\ ScoreIdle
    /\ MatchIdle
    /\ ConcIdle
    /\ ImportIdle
    /\ headerText \in HeaderTexts
    /\ clockYear \in ClockYears
    /\ yearFound = <<>>

notYearVars == <<parserVars, detectVars, extractVars, scoreVars, matchVars, concVars, importVars>>

\* yearFound with the year y that function fn arrived at
Found(fn, y) == [f \in DOMAIN yearFound \cup {fn} |-> IF f = fn THEN y ELSE yearFound[f]]

\* ImportPreview: extractedYear := parser.ExtractYearFromHeader(data)
CallExtractYearFromHeader ==
    /\ "ExtractYearFromHeader" \notin DOMAIN yearFound
    /\ yearFound' = Found("ExtractYearFromHeader", ExtractYearFromHeader(headerText))
    /\ UNCHANGED <<notYearVars, headerText, clockYear>>

\* ParseWithAutoYear(text), up to its call of Parse
CallParseWithAutoYear ==
    /\ "ParseWithAutoYear" \notin DOMAIN yearFound
    /\ yearFound' = Found("ParseWithAutoYear", AutoYear(headerText, clockYear))
    /\ UNCHANGED <<notYearVars, headerText, clockYear>>

YearNext ==
    \/ CallExtractYearFromHeader
    \/ CallParseWithAutoYear

YearSpec == YearInit /\ [][YearNext]_vars

\* the period lines of the text, and the year each writes for its later, TO,
\* date
PeriodLines(text) ==
    {l \in HeaderLines : MatchString(headerPattern, l) /\ Contains(text, l)}
LaterYears(text) == {Atoi(SubSeq(l, 20, 23)) : l \in PeriodLines(text)}

\* C24: the year derived from a text with one period line "DD-MM-YYYY -
\* DD-MM-YYYY" is the year of the later date of that line.
C24_YearOfLaterDate ==
    \A fn \in DOMAIN yearFound :
        Cardinality(PeriodLines(headerText)) = 1 => yearFound[fn] \in LaterYears(headerText)


-----------------------------------------------------------------------------
(* Parse called twice on the same text and year.  Every variable Parse      *)
(* works on is a local of the call (src/unnamed/part_004:1327-1331), so the  *)
(* second call starts from fresh locals; `alone` keeps what the first call  *)
(* returned.                                                                *)

\* a second call that appends to the slice the first call returned
ParseAgainKeeping ==
    /\ pc = "done"
    /\ alone = <<>>
    /\ alone' = <<transactions>>
    /\ i' = 1
    /\ currentTx' = <<>>
    /\ narrationLines' = <<>>
    /\ lastDate' = ZeroTime
    /\ pc' = "loop"
    /\ opened' = <<>> /\ emittedFrom' = <<>> /\ curFrom' = 0
    /\ UNCHANGED <<tables, lines, year, transactions, running, parked, yearVars, importVars,
                   detectVars, extractVars, scoreVars, matchVars>>

\* the first call has returned; Parse is called again with the same arguments
ParseAgain ==
    /\ pc = "done"
    /\ alone = <<>>
    /\ alone' = <<transactions>>
    /\ i' = 1
    /\ transactions' = <<>>
    /\ currentTx' = <<>>
    /\ narrationLines' = <<>>
    /\ lastDate' = ZeroTime
    /\ pc' = "loop"
    /\ opened' = <<>> /\ emittedFrom' = <<>> /\ curFrom' = 0
    /\ UNCHANGED <<tables, lines, year, running, parked, yearVars, importVars,
                   detectVars, extractVars, scoreVars, matchVars>>

ParseTwiceNext ==
    \/ SkipLine
    \/ DateLine
    \/ BankLine
    \/ PartyLine
    \/ NarrationLine
    \/ DroppedLine
    \/ Return
    \/ ParseAgain

ParseTwiceSpec == ParseInit /\ [][ParseTwiceNext]_vars

-----------------------------------------------------------------------------
(* Handler.ImportConfirm and Handler.importTransaction                      *)
(* (src/internal/handler/handler.go:133-230) against the store.  Every      *)
(* request runs on its own goroutine; the queries of importTransaction are  *)
(* separate statements, outside any database transaction, so the statements *)
(* of two requests interleave.  A parsed transaction comes with the         *)
(* identifiers Extract returns for its narration.                           *)

\* CHECK (type IN (...)) of table identifiers
StorableTypes ==
    {TypeUPIVPA, TypePhone, TypeAccountNumber, TypeIFSC, TypeIMPSName, TypeBankName, TypeNEFTName}

ParsedTx(party, amount, narration, ids) ==
    [PartyName |-> party, Amount |-> amount, Date |-> [y |-> 2025, m |-> 4, d |-> 2],
     PaymentMode |-> detectPaymentMode(narration),
     Narration |-> narration, ids |-> ids]
Id(type, value) == [Type |-> type, Value |-> value]

ImportTxs == {
    ParsedTx("NIDHI STORE", 536100, "PAID TO ab@ybl", <<Id(TypeUPIVPA, "AB@YBL")>>),
    ParsedTx("RAM MEDICOS", 1750, "PAID TO cd@ybl", <<Id(TypeUPIVPA, "CD@YBL")>>),
    ParsedTx("PANKAJ MEDICAL", 378000, "PAID TO ab@ybl cd@ybl",
             <<Id(TypeUPIVPA, "AB@YBL"), Id(TypeUPIVPA, "CD@YBL")>>),
    ParsedTx("NIDHI STORE", 536100, "", <<>>),
    ParsedTx("LAXMI MEDICAL STORE", 14400, "BY CASH -733300 TIRWA", <<Id(TypeCashBankCode, "733300")>>) }

MaxBatch == 3
Batches == UNION {[1..n -> ImportTxs] : n \in 1..MaxBatch}
Importers == {1, 2}

\* no request in progress; `left` requests with the data of `batch` to come
Importer(batch, left) ==
    [batch |-> batch, left |-> left, ipc |-> "idle", k |-> 1, j |-> 1, partyID |-> 0,
     imported |-> 0, duplicates |-> 0, reports |-> <<>>]

ImportInit ==
    /\ tables = <<>>
    /\ lines = <<>>
    /\ year = 0
    /\ i = 1
    /\ transactions = <<>>
    /\ currentTx = <<>>
    /\ narrationLines = <<>>
    /\ lastDate = ZeroTime
    /\ pc = "idle"
    /\ opened = <<>>
    /\ emittedFrom = <<>>
    /\ curFrom = 0
    /\ txNarration = "" /\ txPaymentMode = ""
    /\ ExtractIdle
    /\ ScoreIdle
    /\ MatchIdle
    /\ ConcIdle
    /\ YearIdle
    /\ partyTable = <<>>
    /\ identifierTable = {}
    /\ transactionTable = <<>>
    /\ \/ \E b \in Batches :
             importers = [p \in Importers |-> IF p = 1 THEN Importer(b, 2) ELSE Importer(<<>>, 0)]
       \/ \E a, b \in ImportTxs :
             importers = [p \in Importers |-> Importer(IF p = 1 THEN <<a>> ELSE <<b>>, 1)]

notImportVars == <<parserVars, detectVars, extractVars, scoreVars, matchVars, concVars, yearVars>>

Tx(p) == importers[p].batch[importers[p].k]
\* where importTransaction goes on for a transaction with identifiers ids
\* after the lookup loop ended at position j without a hit
AfterLookup(ids, j) == IF j > Len(ids) THEN "createParty" ELSE "lookup"
AfterInsert(ids, j) == IF j > Len(ids) THEN "createTransaction" ELSE "createIdentifier"

\* for _, tx := range transactions { err := h.importTransaction(ctx, tx) ...
StartTransaction(f, k) ==
    IF k > Len(f.batch)
    THEN [f EXCEPT !.ipc = "idle", !.k = k,
                   !.reports = Append(@, [imported |-> f.imported, duplicates |-> f.duplicates])]
    ELSE [f EXCEPT !.ipc = AfterLookup(f.batch[k].ids, 1), !.k = k, !.j = 1, !.partyID = 0]

\* a POST of the data to /import/confirm: Parse, then the loop
ImportConfirm(p) ==
    /\ importers[p].ipc = "idle"
    /\ importers[p].left > 0
    /\ importers' = [importers EXCEPT ![p] =
          StartTransaction([@ EXCEPT !.left = @ - 1, !.imported = 0, !.duplicates = 0], 1)]
    /\ UNCHANGED <<notImportVars, partyTable, identifierTable, transactionTable>>

\* SELECT * FROM identifiers WHERE type = ? AND value = ? LIMIT 1
Stored(id) == {r \in identifierTable : r.Type = id.Type /\ r.Value = id.Value}

GetIdentifierByTypeValue(p) ==
    /\ importers[p].ipc = "lookup"
    /\ LET ids == Tx(p).ids
           j == importers[p].j
       IN importers' = [importers EXCEPT ![p] =
             IF Stored(ids[j]) # {}
             THEN [@ EXCEPT !.partyID = (CHOOSE r \in Stored(ids[j]) : TRUE).PartyID,
                            !.ipc = "createIdentifier", !.j = 1]
             ELSE [@ EXCEPT !.j = j + 1, !.ipc = AfterLookup(ids, j + 1)]]
    /\ UNCHANGED <<notImportVars, partyTable, identifierTable, transactionTable>>

\* if partyID == 0 { party, err := h.queries.CreateParty(...) ; partyID = party.ID }
CreateParty(p) ==
    /\ importers[p].ipc = "createParty"
    /\ partyTable' = Append(partyTable, Tx(p).PartyName)
    /\ importers' = [importers EXCEPT ![p] =
          [@ EXCEPT !.partyID = Len(partyTable) + 1, !.j = 1, !.ipc = AfterInsert(Tx(p).ids, 1)]]
    /\ UNCHANGED <<notImportVars, identifierTable, transactionTable>>

\* INSERT INTO identifiers ... ON CONFLICT (type, value) DO UPDATE SET party_id =
\* excluded.party_id; a type the CHECK constraint rejects is an error, which
\* the loop passes over
CreateIdentifier(p) ==
    /\ importers[p].ipc = "createIdentifier"
    /\ LET ids == Tx(p).ids
           j == importers[p].j
       IN /\ identifierTable' =
                IF ids[j].Type \in StorableTypes
                THEN (identifierTable \ Stored(ids[j])) \cup
                        {[Type |-> ids[j].Type, Value |-> ids[j].Value, PartyID |-> importers[p].partyID]}
                ELSE identifierTable
          /\ importers' = [importers EXCEPT ![p] = [@ EXCEPT !.j = j + 1, !.ipc = AfterInsert(ids, j + 1)]]
    /\ UNCHANGED <<notImportVars, partyTable, transactionTable>>

\* idx_transactions_unique on (party_id, amount, transaction_date, payment_mode,
\* narration); an empty narration is stored as NULL, and NULLs are distinct in
\* a unique index
SameColumns(a, b) ==
    /\ a.Amount = b.Amount /\ a.Date = b.Date /\ a.PaymentMode = b.PaymentMode
    /\ a.Narration = b.Narration /\ a.Narration # ""
UniqueConstraintFailed(partyID, tx) ==
    \E r \in 1..Len(transactionTable) :
        transactionTable[r].PartyID = partyID /\ SameColumns(transactionTable[r].Tx, tx)

\* INSERT INTO transactions ...; then the counting in ImportConfirm and the
\* next turn of its loop, or the result page
CreateTransaction(p) ==
    /\ importers[p].ipc = "createTransaction"
    /\ LET f == importers[p]
           dup == UniqueConstraintFailed(f.partyID, Tx(p))
       IN /\ transactionTable' =
                IF dup THEN transactionTable
                ELSE Append(transactionTable, [PartyID |-> f.partyID, Tx |-> Tx(p)])
          /\ importers' = [importers EXCEPT ![p] =
                StartTransaction([f EXCEPT !.imported = IF dup THEN @ ELSE @ + 1,
                                           !.duplicates = IF dup THEN @ + 1 ELSE @], f.k + 1)]
    /\ UNCHANGED <<notImportVars, partyTable, identifierTable>>

ImportNext ==
    \E p \in Importers :
        \/ ImportConfirm(p)
        \/ GetIdentifierByTypeValue(p)
        \/ CreateParty(p)
        \/ CreateIdentifier(p)
        \/ CreateTransaction(p)

ImportSpec == ImportInit /\ [][ImportNext]_vars

\* C28: when the same data has been confirmed twice, with no other request in
\* between, the second run reports every parsed transaction as a duplicate and
\* none as imported, and the store holds the rows of the first run only.
C28_SecondRunAllDuplicates ==
    \A p \in Importers :
        (importers[3 - p].batch = <<>> /\ Len(importers[p].reports) = 2) =>
            /\ importers[p].reports[2] = [imported |-> 0, duplicates |-> Len(importers[p].batch)]
            /\ Len(transactionTable) = importers[p].reports[1].imported

\* C29: when two requests, each importing one transaction, have both finished
\* on a store that was empty, and their narrations share an identifier, both
\* transactions are rows of one party and one party row exists.
SharedIdentifiers(a, b) ==
    {a.ids[x] : x \in 1..Len(a.ids)} \cap {b.ids[x] : x \in 1..Len(b.ids)}
BothImported ==
    \A p \in Importers :
        Len(importers[p].batch) = 1 /\ importers[p].left = 0 /\ importers[p].ipc = "idle"
C29_OnePartyForSharedIdentifier ==
    (BothImported /\ SharedIdentifiers(importers[1].batch[1], importers[2].batch[1]) # {}) =>
        /\ Len(partyTable) = 1
        /\ \A r \in 1..Len(transactionTable) : transactionTable[r].PartyID = 1
====
